---- MODULE Spec2Model ----
(***************************************************************************)
(* A model of the turtl-js-api client library: the validation rule         *)
(* registry and request dispatch of TurtlAPI, the services and endpoints   *)
(* of TurtlAPIService / TurtlEndpoint, the self-validating                 *)
(* TurtlRequestModel and the TurtlResponse envelope.                       *)
(*                                                                         *)
(* JavaScript values are represented as follows.                           *)
(*   - a field value is a string; a string that starts with "<" stands for *)
(*     a value that is not a JavaScript string ("<undefined>", "<null>",   *)
(*     "<true>", "<false>", "<object>", "<function>");                     *)
(*   - an object is the function from its own enumerable property names to *)
(*     their values;                                                       *)
(*   - a value returned by a rule, a validator or a call is a record       *)
(*     [cls, success, message, data]; cls is the class of the value        *)
(*     ("TurtlResponse", "Object", "undefined", ...), message is the       *)
(*     sequence of the pieces of the template literal that built it.       *)
(***************************************************************************)
EXTENDS Integers, Sequences, FiniteSets, TLC

(***************************************************************************)
(* Bounds of the model.                                                    *)
(***************************************************************************)
MaxRegister == 1      \* registerValidationRule calls after construction
MaxInflight == 1      \* transport requests in flight at the same time
MaxConcurrent == 2    \* concurrent calls suspended at the same time

(***************************************************************************)
(* JavaScript primitives.                                                  *)
(***************************************************************************)
UNDEF == "<undefined>"
NULL == "<null>"

\* obj[key] on an object given by its own properties
Get(obj, key) == IF key \in DOMAIN obj THEN obj[key] ELSE UNDEF

\* ToBoolean
Truthy(v) == v \notin {"", UNDEF, NULL, "<false>"}

\* the typeof operator
TypeOf(v) ==
  CASE v = UNDEF -> "undefined"
    [] v \in {"<true>", "<false>"} -> "boolean"
    [] v \in {NULL, "<object>"} -> "object"
    [] v = "<function>" -> "function"
    [] OTHER -> "string"

\* value.length of a string value: the number of its characters
StrLen(v) == Len(v)

\* /^[^\s@]+@[^\s@]+\.[^\s@]+$/.test(value) on the values of the model:
\* the argument is converted to a string first ("true", "[object Object]").
EmailPattern(v) == v = "a@b.c"

\* Object.assign(target, source)
ObjectAssign(target, source) ==
  [k \in DOMAIN target \cup DOMAIN source |->
     IF k \in DOMAIN source THEN source[k] ELSE target[k]]

\* the property names that for-in visits before all others: canonical
\* array indices, in ascending numeric order
ArrayIndexKeys == {"0", "1"}

IndexOf(k) == IF k = "0" THEN 0 ELSE 1

(***************************************************************************)
(* TurtlResponse.                                                          *)
(***************************************************************************)
TurtlResponse(success, message, data) ==
  [success |-> success, message |-> message, data |-> data,
   cls |-> "TurtlResponse"]

Error(message) == TurtlResponse(FALSE, message, "{}")

Success(message, data) == TurtlResponse(TRUE, message, data)

\* values that are not envelopes
Undefined == [success |-> FALSE, message |-> <<>>, data |-> "",
              cls |-> "undefined"]

PlainFailure == [success |-> FALSE, message |-> <<>>, data |-> "",
                 cls |-> "Object"]

\* the value of a property read off an object that is not a stored envelope
ValueOfTag(v) ==
  [success |-> FALSE, message |-> <<v>>, data |-> "",
   cls |-> IF v = UNDEF THEN "undefined"
           ELSE IF v = "<object>" THEN "Object" ELSE "primitive"]

\* a returned value and a raised error
Return(v) == [throws |-> "none", value |-> v]

Throw(kind) == [throws |-> kind, value |-> Undefined]

(***************************************************************************)
(* Rule options and schemas.                                               *)
(***************************************************************************)
\* ruleEntry.options || {} : no errors list, no length, no type
NoOptions == [errors |-> <<>>, length |-> -1, type |-> ""]

RuleEntry(name) == [rule |-> name, options |-> NoOptions]

RuleEntryWith(name, errors) ==
  [rule |-> name, options |-> [NoOptions EXCEPT !.errors = errors]]

\* a field of a schema literal: its name and its rule list
Field(key, rules) == [key |-> key, rules |-> rules, isArray |-> TRUE]

\* a field whose schema value is not an array
BadField(key) == [key |-> key, rules |-> <<>>, isArray |-> FALSE]

(***************************************************************************)
(* TurtlRequestModel.getErrorMessage and the validation rules.             *)
(***************************************************************************)
\* instance.getErrorMessage is callable: the prototype method, unless an own
\* property copied from the caller's data shadows it with a non-function
ErrorMessageCallable(own) ==
  "getErrorMessage" \in DOMAIN own => own["getErrorMessage"] = "<function>"

\* getErrorMessage(index, defaultMessage, options)
getErrorMessage(index, defaultMessage, options) ==
  IF Len(options.errors) > index /\ Truthy(options.errors[index + 1])
  THEN <<options.errors[index + 1]>>
  ELSE defaultMessage

\* TurtlResponse.Error(instance.getErrorMessage(index, defaultMessage, options))
ErrorWithMessage(own, index, defaultMessage, options) ==
  IF ErrorMessageCallable(own)
  THEN Return(Error(getErrorMessage(index, defaultMessage, options)))
  ELSE Throw("TypeError")

BuiltinRules ==
  {"required", "email", "minLength", "arrayOf", "instanceOf", "typeOf"}

\* the functions a caller registers as rules: one that returns
\* TurtlResponse.Error, one that returns TurtlResponse.Success, one that
\* returns nothing, one that returns the plain object {success: false}
UserRules == {"fFail", "fPass", "fNothing", "fPlain"}

\* what typeof validator === "function" accepts
IsFunction(fn) == fn \in BuiltinRules \cup UserRules

\* validator(value, instance, options)
ApplyRule(fn, value, own, options) ==
  CASE fn = "required" ->
         IF value \in {UNDEF, NULL, ""}
         THEN ErrorWithMessage(own, 0, <<"Field is required.">>, options)
         ELSE Return(Success(<<>>, "{}"))
    [] fn = "email" ->
         IF Truthy(value) /\ ~EmailPattern(value)
         THEN ErrorWithMessage(own, 0, <<"Must be a valid email.">>, options)
         ELSE Return(Success(<<>>, "{}"))
    [] fn = "minLength" ->
         IF /\ value # UNDEF
            /\ TypeOf(value) = "string"
            /\ StrLen(value) < (IF options.length > 0 THEN options.length ELSE 0)
         THEN ErrorWithMessage(own, 0,
                <<"Minimum length is ", ToString(options.length), ".">>,
                options)
         ELSE Return(Success(<<>>, "{}"))
    [] fn = "arrayOf" ->
         \* no value of the model is an array
         ErrorWithMessage(own, 0, <<"Value must be an array.">>, options)
    [] fn = "instanceOf" ->
         IF ~Truthy(options.type)
         THEN Return(Error(<<"No type specified for InstanceOf rule.">>))
         ELSE Throw("TypeError")   \* instanceof with a string on the right
    [] fn = "typeOf" ->
         IF ~Truthy(options.type)
         THEN Return(Error(<<"No type specified for TypeOf rule.">>))
         ELSE IF TypeOf(value) # options.type
         THEN ErrorWithMessage(own, 0,
                <<"Value must be of type '", options.type, "', but got '",
                  TypeOf(value), "'.">>, options)
         ELSE Return(Success(<<>>, "{}"))
    [] fn = "fFail" -> Return(Error(<<"Rule failed">>))
    [] fn = "fPass" -> Return(Success(<<>>, "{}"))
    [] fn = "fNothing" -> Return(Undefined)
    [] fn = "fPlain" -> Return(PlainFailure)

(***************************************************************************)
(* The rule registry of TurtlAPI.                                          *)
(***************************************************************************)
\* the registry after the constructor has registered the built-in rules
BuiltinRegistry == [n \in BuiltinRules |-> n]

\* property names every Map object has (from Map.prototype and
\* Object.prototype)
MapProperties ==
  {"size", "get", "set", "has", "delete", "clear", "forEach", "keys",
   "values", "entries", "constructor", "toString", "valueOf",
   "hasOwnProperty"}

\* name in this.validationRules : the in operator on a Map looks for a
\* property of the Map object, not for an entry
InValidationRules(rules, name) == name \in MapProperties

\* registerValidationRule(name, fn): the new registry and the warnings logged
registerValidationRule(rules, name, fn) ==
  [rules |-> [n \in DOMAIN rules \cup {name} |->
                IF n = name THEN fn ELSE rules[n]],
   warned |-> IF InValidationRules(rules, name) THEN 1 ELSE 0]

\* getValidationRule(name)
getValidationRule(rules, name) ==
  IF name \notin DOMAIN rules
  THEN [throws |-> "Error", fn |-> UNDEF]
  ELSE [throws |-> "none", fn |-> rules[name]]

\* listValidationRules()
listValidationRules(rules) == DOMAIN rules

(***************************************************************************)
(* TurtlRequestModel.                                                      *)
(***************************************************************************)
\* for-in taken to visit the fields in the order the literal declares them
ForInOrder_Declared(schema) == schema

\* for (const key in schema): the fields of a schema literal in the order
\* for-in visits them, array-index names first in ascending numeric order,
\* then the other names in the order the literal declares them
ForInOrder(schema) ==
  LET index(n) == SelectSeq(schema, LAMBDA f:
                    f.key \in ArrayIndexKeys /\ IndexOf(f.key) = n)
  IN index(0) \o index(1)
       \o SelectSeq(schema, LAMBDA f: f.key \notin ArrayIndexKeys)

\* the inner loop of validateFields, for (const ruleEntry of rulesArray):
\* log is the sequence of <<field, rule>> pairs of the validators invoked
RECURSIVE RunRules(_, _, _, _, _, _, _)
RunRules(rulesArray, key, value, own, apiPresent, rules, log) ==
  IF rulesArray = <<>>
  THEN [throws |-> "none", log |-> log, failed |-> FALSE, result |-> Undefined]
  ELSE
    LET ruleEntry == Head(rulesArray)
        lookup == IF apiPresent
                  THEN getValidationRule(rules, ruleEntry.rule)
                  ELSE [throws |-> "none", fn |-> UNDEF]
        invoked == Append(log, <<key, ruleEntry.rule>>)
        applied == ApplyRule(lookup.fn, value, own, ruleEntry.options)
    IN IF lookup.throws # "none"
       THEN [throws |-> lookup.throws, log |-> log, failed |-> FALSE,
             result |-> Undefined]
       ELSE IF ~IsFunction(lookup.fn)
       THEN [throws |-> "none", log |-> log, failed |-> TRUE,
             result |-> Error(<<"Validation rule '", ruleEntry.rule,
                                "' not registered.">>)]
       ELSE IF applied.throws # "none"
       THEN [throws |-> applied.throws, log |-> invoked, failed |-> FALSE,
             result |-> Undefined]
       ELSE IF applied.value.cls = "TurtlResponse" /\ ~applied.value.success
       THEN [throws |-> "none", log |-> invoked, failed |-> TRUE,
             result |-> applied.value]
       ELSE RunRules(Tail(rulesArray), key, value, own, apiPresent, rules,
                     invoked)

\* the outer loop of validateFields over the fields in for-in order
RECURSIVE RunFields(_, _, _, _, _)

\* the body of the outer loop for the field f once its rules have run with
\* outcome r; rest are the fields still to visit
AfterRules(r, f, rest, own, apiPresent, rules, log) ==
  IF ~f.isArray
  THEN [throws |-> "none", own |-> own, log |-> log,
        result |-> Error(<<"Schema for field '", f.key,
                           "' must be an array.">>)]
  ELSE IF r.throws # "none"
  THEN [throws |-> r.throws, own |-> own, log |-> r.log, result |-> Undefined]
  ELSE IF r.failed
  THEN [throws |-> "none", own |-> own, log |-> r.log, result |-> r.result]
  ELSE RunFields(rest, own, apiPresent, rules, r.log)

RunFields(fields, own, apiPresent, rules, log) ==
  IF fields = <<>>
  THEN [throws |-> "none", own |-> own, log |-> log,
        result |-> Success(<<>>, "{}")]
  ELSE AfterRules(RunRules(Head(fields).rules, Head(fields).key,
                           Get(own, Head(fields).key), own, apiPresent,
                           rules, log),
                  Head(fields), Tail(fields), own, apiPresent, rules, log)

\* the instance after validateFields has installed getErrorMessage on an
\* instance whose getErrorMessage is falsy
InstallGetErrorMessage(own) ==
  IF "getErrorMessage" \in DOMAIN own /\ ~Truthy(own["getErrorMessage"])
  THEN [own EXCEPT !["getErrorMessage"] = "<function>"]
  ELSE own

\* TurtlRequestModel.validateFields(schema, instance, api)
validateFields(schema, own, apiPresent, rules) ==
  RunFields(ForInOrder(schema), InstallGetErrorMessage(own), apiPresent,
            rules, <<>>)

\* the functions a caller passes as custom validator
CustomValidators == {"cvPass", "cvFail", "cvPlain", "cvNothing", "cvFalse"}

\* customValidator(this)
ApplyCustom(customValidator) ==
  CASE customValidator = "cvPass" -> Success(<<>>, "{}")
    [] customValidator = "cvFail" -> Error(<<"Custom validation failed">>)
    [] customValidator = "cvPlain" -> PlainFailure
    [] customValidator = "cvNothing" -> Undefined
    [] customValidator = "cvFalse" -> ValueOfTag("<false>")

\* the list of toDataObject without the dispatcher reference
ExcludedKeys_NoApi ==
  {"_schema", "_customValidator", "validateResult", "isValid",
   "getErrorMessage"}

\* the property names toDataObject leaves out
ExcludedKeys ==
  {"_schema", "_customValidator", "_api", "validateResult", "isValid",
   "getErrorMessage"}

\* the custom validator called only after the schema validation succeeded
CustomCalled_OnlyOnSuccess(customValidator, result) ==
  customValidator # NULL /\ result.success

\* customValidator ? customValidator(this) : null : whether the validator is
\* called, given the result of validateFields
CustomCalled(customValidator, result) == customValidator # NULL

\* the result of the custom validator left out of the decision
CustomFails_Ignored(custom) == FALSE

\* a custom validator held to the criterion of a rule: only a failing
\* envelope fails the model
CustomFails_InstanceOnly(custom) ==
  custom.cls = "TurtlResponse" /\ ~custom.success

\* custom && !custom.success: the returned value is truthy (an object, or a
\* primitive that is not a falsy one) and its success is falsy
CustomFails(custom) ==
  /\ custom.cls # "undefined"
  /\ custom.cls = "primitive" => Truthy(custom.message[1])
  /\ ~custom.success

\* a constructor that keeps the isValid and the validateResult of the data
Validated_DataWins(v, customValidator) ==
  LET called == CustomCalled(customValidator, v.result)
      custom == IF called THEN ApplyCustom(customValidator) ELSE Undefined
      customFails == CustomFails(custom)
      isValid == v.result.success /\ ~customFails
      validateResult ==
        IF ~v.result.success THEN v.result
        ELSE IF customFails THEN custom
        ELSE Success(<<"Validation successful">>, "{}")
      final == [k \in DOMAIN v.own \cup {"validateResult", "isValid"} |->
                  IF k \in DOMAIN v.own THEN v.own[k]
                  ELSE IF k = "isValid"
                  THEN (IF isValid THEN "<true>" ELSE "<false>")
                  ELSE "<object>"]
  IN IF v.throws # "none"
     THEN [throws |-> v.throws, own |-> <<>>, log |-> v.log, custom |-> FALSE,
           validateResult |-> Undefined]
     ELSE [throws |-> "none", own |-> final, log |-> v.log, custom |-> called,
           validateResult |-> IF "validateResult" \in DOMAIN v.own
                              THEN ValueOfTag(v.own["validateResult"])
                              ELSE validateResult]

\* the constructor from the call of validateFields on, v being what
\* validateFields did
Validated(v, customValidator) ==
  LET called == CustomCalled(customValidator, v.result)
      custom == IF called THEN ApplyCustom(customValidator) ELSE Undefined
      customFails == CustomFails(custom)
      isValid == v.result.success /\ ~customFails
      validateResult ==
        IF ~v.result.success THEN v.result
        ELSE IF customFails THEN custom
        ELSE Success(<<"Validation successful">>, "{}")
      final == ObjectAssign(v.own,
                 [k \in {"validateResult", "isValid"} |->
                    IF k = "isValid"
                    THEN (IF isValid THEN "<true>" ELSE "<false>")
                    ELSE "<object>"])
  IN IF v.throws # "none"
     THEN [throws |-> v.throws, own |-> <<>>, log |-> v.log, custom |-> FALSE,
           validateResult |-> Undefined]
     ELSE [throws |-> "none", own |-> final, log |-> v.log, custom |-> called,
           validateResult |-> validateResult]

\* this._schema = schema; this._customValidator = customValidator;
\* this._api = api
OwnFields(customValidator, apiPresent) ==
  [k \in {"_schema", "_customValidator", "_api"} |->
     CASE k = "_schema" -> "<object>"
       [] k = "_customValidator" ->
            IF customValidator = NULL THEN NULL ELSE "<function>"
       [] k = "_api" -> IF apiPresent THEN "<object>" ELSE NULL]

\* new TurtlRequestModel(data, schema, customValidator, api): the instance is
\* its own properties and the envelope stored in validateResult
Constructor(data, schema, customValidator, apiPresent, rules) ==
  Validated(validateFields(schema,
                           ObjectAssign(OwnFields(customValidator, apiPresent),
                                        data),
                           apiPresent, rules),
            customValidator)

\* toDataObject()
toDataObject(own) == [k \in DOMAIN own \ ExcludedKeys |-> own[k]]

\* TurtlRequestModel.createFactory(schema, customValidator)
createFactory(schema, customValidator) ==
  [schema |-> schema, customValidator |-> customValidator, hasCreate |-> TRUE]

\* a value stored as a model that has no create function, and the undefined
\* that getModel returns for a name that is not registered
NotAFactory == [schema |-> <<>>, customValidator |-> NULL, hasCreate |-> FALSE]

\* factory.create(data, api)
create(factory, data, apiPresent, rules) ==
  Constructor(data, factory.schema, factory.customValidator, apiPresent, rules)

(***************************************************************************)
(* TurtlEndpoint and TurtlAPIService.                                      *)
(***************************************************************************)
\* the empty object {} and the empty Map
Empty == <<>>

\* new TurtlEndpoint({...config, name}): a config is a record with all the
\* options, the absent ones at the defaults of the constructor
DefaultConfig ==
  [path |-> "/login.php", method |-> "POST", modelName |-> "empty",
   requiresAuth |-> FALSE, mockResponseSuccess |-> NULL,
   mockResponseFailure |-> NULL, headers |-> Empty]

TurtlEndpoint(name, config) ==
  [name |-> name, path |-> config.path, method |-> config.method,
   modelName |-> config.modelName, requiresAuth |-> config.requiresAuth,
   mockResponseSuccess |-> config.mockResponseSuccess,
   mockResponseFailure |-> config.mockResponseFailure,
   headers |-> config.headers]

\* new TurtlAPIService(name, basePath)
TurtlAPIService(name, basePath) ==
  [name |-> name, headers |-> Empty, basePath |-> basePath,
   endpoints |-> Empty,
   Models |-> [n \in {"empty"} |-> createFactory(<<>>, NULL)]]

\* map.set(key, value)
MapSet(map, key, value) ==
  [k \in DOMAIN map \cup {key} |-> IF k = key THEN value ELSE map[k]]

\* a merge that lets the source replace the keys the target already has
FillAbsent_Overwrite(target, source) ==
  [k \in DOMAIN target \cup DOMAIN source |->
     IF k \in DOMAIN source THEN source[k] ELSE target[k]]

\* for (const [key, value] of source) if (key in target == false)
\*   target[key] = value
FillAbsent(target, source) ==
  [k \in DOMAIN target \cup DOMAIN source |->
     IF k \in DOMAIN target THEN target[k] ELSE source[k]]

\* an addModel that replaces the model of a name already taken
addModel_Overwrite(service, name, model) ==
  [throws |-> "none",
   service |-> [service EXCEPT !.Models = MapSet(@, name, model)]]

\* service.addModel(name, model)
addModel(service, name, model) ==
  IF name \in DOMAIN service.Models
  THEN [throws |-> "Error", service |-> service]
  ELSE [throws |-> "none",
        service |-> [service EXCEPT !.Models = MapSet(@, name, model)]]

\* service.getModel(name)
getModel(service, name) ==
  IF name \in DOMAIN service.Models THEN service.Models[name] ELSE NotAFactory

\* an addEndpoint that stores the endpoint whatever its modelName
addEndpoint_NoModelCheck(service, name, config) ==
  [throws |-> "none",
   service |-> [service EXCEPT !.endpoints =
                  MapSet(@, name, TurtlEndpoint(name, config))]]

\* service.addEndpoint(name, config)
addEndpoint(service, name, config) ==
  LET endpoint == TurtlEndpoint(name, config)
  IN IF endpoint.modelName \notin DOMAIN service.Models
     THEN [throws |-> "Error", service |-> service]
     ELSE [throws |-> "none",
           service |-> [service EXCEPT !.endpoints = MapSet(@, name, endpoint)]]

\* service.getEndpoint(name): the endpoint found (the headers of the service
\* filled into its header object) and the service after the call
getEndpoint(service, name) ==
  IF name \notin DOMAIN service.endpoints
  THEN IF DOMAIN service.headers # {}
       THEN \* key in endpoint.headers with endpoint undefined
            [throws |-> "TypeError", service |-> service, found |-> FALSE]
       ELSE [throws |-> "none", service |-> service, found |-> FALSE]
  ELSE [throws |-> "none",
        service |-> [service EXCEPT !.endpoints[name].headers =
                       FillAbsent(@, service.headers)],
        found |-> TRUE]

\* service.addHeader(name, value)
serviceAddHeader(service, name, value) ==
  [service EXCEPT !.headers = MapSet(@, name, value)]

(***************************************************************************)
(* The state of the program.                                               *)
(***************************************************************************)
VARIABLES
  validationRules,  \* TurtlAPI.validationRules: rule name -> function
  warnings,         \* number of console.warn calls so far
  registrations,    \* number of registerValidationRule calls by the caller
  headers,          \* TurtlAPI.headers: the global header Map
  mock,             \* TurtlAPI.mock
  getAuthToken,     \* TurtlAPI.getAuthToken
  services,         \* TurtlAPI.services: service name -> service object
  svc,              \* the TurtlAPIService objects the caller has built
  configured,       \* history: the headers each endpoint was configured with
  held,             \* the request model the caller holds and, as history,
                    \* the data it was built from
  inflight,         \* the calls that wait for the transport to answer
  last,             \* the last operation: its arguments and what it did
  input             \* the factory and the data of a caller that builds
                    \* request models itself

vars == <<validationRules, warnings, registrations, headers, mock,
          getAuthToken, services, svc, configured, held, inflight, last,
          input>>

\* TurtlAPI.host
Host == "http://jsmodule.local"

\* an argument of call: an object given by its own properties, whether it is
\* a TurtlRequestModel instance, and the value of its validateResult
NoModel ==
  [own |-> Empty, validateResult |-> Undefined, present |-> FALSE,
   instance |-> FALSE]

\* a plain object the caller passes as data
RawData(data) ==
  [own |-> data, validateResult |-> ValueOfTag(Get(data, "validateResult")),
   present |-> TRUE, instance |-> FALSE]

\* a TurtlRequestModel instance built by the constructor
Instance(c) ==
  [own |-> c.own, validateResult |-> c.validateResult, present |-> TRUE,
   instance |-> TRUE]

\* no transport request
NoRequest ==
  [method |-> "", headers |-> Empty, url |-> "", query |-> Empty,
   hasBody |-> FALSE, body |-> Empty]

\* no response text: the transport event carries none
NoText ==
  [parses |-> FALSE, isNull |-> FALSE, isObject |-> FALSE, json |-> Empty]

\* the record of an operation that has not done anything yet
Blank ==
  [data |-> Empty, throws |-> "none", value |-> Undefined, name |-> "",
   fn |-> "", warned |-> 0, apiPresent |-> FALSE, log |-> <<>>,
   custom |-> FALSE, factory |-> NotAFactory, found |-> FALSE, op |-> "none",
   fullName |-> <<>>, argIsInstance |-> FALSE, mockResult |-> FALSE,
   pending |-> FALSE, gate |-> NoModel, constructed |-> FALSE, sent |-> 0,
   mocked |-> 0, headersUsed |-> Empty, existed |-> FALSE, mockArg |-> UNDEF,
   consulted |-> FALSE, request |-> NoRequest, text |-> NoText, ticket |-> 0]

(***************************************************************************)
(* TurtlAPI: resolution of a full name.                                    *)
(***************************************************************************)
\* const [serviceName, endpointName] = fullName.split("."): a full name is
\* given as the sequence of its pieces between the dots
ServiceNameOf(fullName) == fullName[1]

EndpointNameOf(fullName) == IF Len(fullName) >= 2 THEN fullName[2] ELSE UNDEF

\* ${name} in a template literal
Interpolate(v) == IF v = UNDEF THEN "undefined" ELSE v

\* api.getService(name): the service object registered, if any
HasService(registry, name) == name \in DOMAIN registry

\* addService that stores the first service of a name and ignores the later
addService_KeepFirst(registry, objects, sid) ==
  IF sid = UNDEF \/ ~Truthy(objects[sid].name)
  THEN [throws |-> "Error", registry |-> registry]
  ELSE [throws |-> "none",
        registry |-> IF objects[sid].name \in DOMAIN registry THEN registry
                     ELSE MapSet(registry, objects[sid].name, sid)]

\* addService(service): service is one of the service objects, or UNDEF for
\* a call without a service
addService(registry, objects, sid) ==
  IF sid = UNDEF \/ ~Truthy(objects[sid].name)
  THEN [throws |-> "Error", registry |-> registry]
  ELSE [throws |-> "none",
        registry |-> MapSet(registry, objects[sid].name, sid)]

\* #getDataFromFullName without the check that the service was found:
\* service.getEndpoint is then called on undefined
getDataFromFullName_NoServiceCheck(registry, objects, fullName) ==
  LET serviceName == ServiceNameOf(fullName)
      endpointName == EndpointNameOf(fullName)
      sid == registry[serviceName]
      e == getEndpoint(objects[sid], endpointName)
  IN IF ~HasService(registry, serviceName)
     THEN [throws |-> "TypeError", service |-> TurtlAPIService("", ""),
           sid |-> "", Failed |-> TRUE, Response |-> Undefined]
     ELSE IF e.throws # "none"
     THEN [throws |-> e.throws, service |-> e.service, sid |-> sid,
           Failed |-> TRUE, Response |-> Undefined]
     ELSE IF ~e.found
     THEN [throws |-> "none", service |-> e.service, sid |-> sid,
           Failed |-> TRUE,
           Response |-> Error(<<"Endpoint '", Interpolate(endpointName),
                                "' not found in service '",
                                Interpolate(serviceName), "'.">>)]
     ELSE [throws |-> "none", service |-> e.service, sid |-> sid,
           Failed |-> FALSE, Response |-> Undefined]

\* #getDataFromFullName(fullName), given the registry and the service objects
getDataFromFullName(registry, objects, fullName) ==
  LET serviceName == ServiceNameOf(fullName)
      endpointName == EndpointNameOf(fullName)
      sid == registry[serviceName]
      e == getEndpoint(objects[sid], endpointName)
  IN IF ~HasService(registry, serviceName)
     THEN [throws |-> "none", service |-> TurtlAPIService("", ""), sid |-> "",
           Failed |-> TRUE,
           Response |-> Error(<<"Service '", Interpolate(serviceName),
                                "' not found.">>)]
     ELSE IF e.throws # "none"
     THEN [throws |-> e.throws, service |-> e.service, sid |-> sid,
           Failed |-> TRUE, Response |-> Undefined]
     ELSE IF ~e.found
     THEN [throws |-> "none", service |-> e.service, sid |-> sid,
           Failed |-> TRUE,
           Response |-> Error(<<"Endpoint '", Interpolate(endpointName),
                                "' not found in service '",
                                Interpolate(serviceName), "'.">>)]
     ELSE [throws |-> "none", service |-> e.service, sid |-> sid,
           Failed |-> FALSE, Response |-> Undefined]

(***************************************************************************)
(* TurtlAPI: dispatch.                                                     *)
(***************************************************************************)
\* method.toUpperCase()
ToUpperCase(method) ==
  CASE method = "get" -> "GET"
    [] method = "post" -> "POST"
    [] OTHER -> method

\* the token providers a caller configures: none, one that yields null, one
\* that yields the empty string, one that yields a token
TokenProviders == {NULL, "returnsNull", "returnsEmpty", "returnsToken"}

\* getAuthToken ? getAuthToken() : null
TokenOf(tokenProvider) ==
  CASE tokenProvider = "returnsToken" -> "token"
    [] tokenProvider = "returnsEmpty" -> ""
    [] OTHER -> NULL

\* the request refused only when the token is null
AuthMissing_NullOnly(requiresAuth, token) == requiresAuth /\ token = NULL

\* if (requiresAuth) { ... if (token) ... else resolve(Error) }: the request
\* is refused
AuthMissing(requiresAuth, token) == requiresAuth /\ ~Truthy(token)

\* a #sendRequest that treats every method as one that carries a body
sendRequest_BodyOnGet(method, url, body, requiresAuth, tokenProvider, hdrs) ==
  LET isGet == FALSE
      query == IF isGet /\ DOMAIN body # {} THEN body ELSE Empty
      token == TokenOf(tokenProvider)
      contentType == [k \in {"Content-Type"} |-> "application/json"]
      withAuth == IF requiresAuth
                  THEN MapSet(contentType, "Authorization", "Bearer " \o token)
                  ELSE contentType
  IN IF AuthMissing(requiresAuth, token)
     THEN [value |-> Error(<<"Authentication required.">>),
           consulted |-> requiresAuth /\ tokenProvider # NULL,
           request |-> NoRequest, resolved |-> TRUE]
     ELSE [value |-> Undefined,
           consulted |-> requiresAuth /\ tokenProvider # NULL,
           request |-> [method |-> method,
                        headers |-> ObjectAssign(withAuth, hdrs), url |-> url,
                        query |-> query, hasBody |-> ~isGet,
                        body |-> IF isGet THEN Empty ELSE body],
           resolved |-> FALSE]

\* #sendRequest(method, url, body, requiresAuth, getAuthToken, headers): either
\* the promise is resolved at once or a request is handed to the transport.
\* The header names of the model differ from Content-Type and Authorization.
sendRequest(method, url, body, requiresAuth, tokenProvider, hdrs) ==
  LET isGet == ToUpperCase(method) = "GET"
      query == IF isGet /\ DOMAIN body # {} THEN body ELSE Empty
      token == TokenOf(tokenProvider)
      contentType == [k \in {"Content-Type"} |-> "application/json"]
      withAuth == IF requiresAuth
                  THEN MapSet(contentType, "Authorization", "Bearer " \o token)
                  ELSE contentType
  IN IF AuthMissing(requiresAuth, token)
     THEN [value |-> Error(<<"Authentication required.">>),
           consulted |-> requiresAuth /\ tokenProvider # NULL,
           request |-> NoRequest, resolved |-> TRUE]
     ELSE [value |-> Undefined,
           consulted |-> requiresAuth /\ tokenProvider # NULL,
           request |-> [method |-> method,
                        headers |-> ObjectAssign(withAuth, hdrs), url |-> url,
                        query |-> query, hasBody |-> ~isGet,
                        body |-> IF isGet THEN Empty ELSE body],
           resolved |-> FALSE]

\* the kinds of value configured as mockResponseSuccess / mockResponseFailure
MockKinds == {NULL, "function", "thenable", "literal"}

\* the envelope a configured mock stands for: the one its function returns,
\* the one its thenable resolves to, or the literal itself
MockEnvelope(configuredMock, success) ==
  IF success
  THEN Success(<<"Mock login (", configuredMock, ")">>, "{user}")
  ELSE Error(<<"Mock login failure (", configuredMock, ")">>)

\* the default mock taken for every configured mock
ResolveMock_AlwaysDefault(configuredMock, success) ==
  IF success
  THEN Success(<<"Mocked response">>, "{}")
  ELSE Error(<<"Mocked failure response">>)

\* the value #prepareSendRequest passes to #createMockResponse
ResolveMock(configuredMock, success) ==
  IF configuredMock = "function"
  THEN MockEnvelope("function", success)        \* await mock(model)
  ELSE IF configuredMock \notin {UNDEF, NULL}
  THEN IF configuredMock = "thenable"
       THEN MockEnvelope("thenable", success)   \* await mock
       ELSE MockEnvelope(configuredMock, success) \* mock itself
  ELSE IF success
  THEN Success(<<"Mocked response">>, "{}")
  ELSE Error(<<"Mocked failure response">>)

\* #prepareSendRequest(model, service, endpoint, mockResult)
prepareSendRequest(model, service, endpoint, mockResult, isMock, tokenProvider) ==
  LET configuredMock == IF mockResult THEN endpoint.mockResponseSuccess
                        ELSE endpoint.mockResponseFailure
      url == Host \o service.basePath \o endpoint.path
      s == sendRequest(endpoint.method, url, toDataObject(model.own),
                       endpoint.requiresAuth, tokenProvider, endpoint.headers)
  IN IF isMock
     THEN IF model.instance
          THEN [throws |-> "none",
                value |-> ResolveMock(configuredMock, mockResult),
                pending |-> FALSE, sent |-> 0, mocked |-> 1,
                consulted |-> FALSE, request |-> NoRequest]
          ELSE \* #createMockResponse: model.toDataObject is not a function
               [throws |-> "TypeError", value |-> Undefined,
                pending |-> FALSE, sent |-> 0, mocked |-> 1,
                consulted |-> FALSE, request |-> NoRequest]
     ELSE IF ~model.instance
     THEN \* model.toDataObject() throws inside the try block
          [throws |-> "none", value |-> Error(<<"Request failed">>),
           pending |-> FALSE, sent |-> 0, mocked |-> 0, consulted |-> FALSE,
           request |-> NoRequest]
     ELSE IF s.resolved
     THEN [throws |-> "none", value |-> s.value, pending |-> FALSE,
           sent |-> 0, mocked |-> 0, consulted |-> s.consulted,
           request |-> NoRequest]
     ELSE [throws |-> "none", value |-> Undefined, pending |-> TRUE,
           sent |-> 1, mocked |-> 0, consulted |-> s.consulted,
           request |-> s.request]

\* #callWithModel without the validity gate
callWithModel_NoGate(requestModel, service, endpoint, mockResult, isMock, tokenProvider) ==
  prepareSendRequest(requestModel, service, endpoint, mockResult, isMock,
                     tokenProvider)

\* #callWithModel(requestModel, service, endpoint, mockResult)
callWithModel(requestModel, service, endpoint, mockResult, isMock, tokenProvider) ==
  IF ~Truthy(Get(requestModel.own, "isValid"))
  THEN [throws |-> "none", value |-> requestModel.validateResult,
        pending |-> FALSE, sent |-> 0, mocked |-> 0, consulted |-> FALSE,
        request |-> NoRequest]
  ELSE prepareSendRequest(requestModel, service, endpoint, mockResult, isMock,
                          tokenProvider)

\* what a call did besides returning: blank until the pipeline fills it in
NoEffect ==
  [throws |-> "none", value |-> Undefined, log |-> <<>>, custom |-> FALSE,
   service |-> TurtlAPIService("", ""), pending |-> FALSE, gate |-> NoModel,
   constructed |-> FALSE, sent |-> 0, mocked |-> 0, headersUsed |-> Empty,
   consulted |-> FALSE, request |-> NoRequest, sid |-> ""]

\* a dispatch that marks the model it was given as not valid any more
Dispatched_Invalidating(r, gate) ==
  [NoEffect EXCEPT !.throws = r.throws, !.pending = r.pending,
     !.value = r.value,
     !.gate = [gate EXCEPT !.own = MapSet(@, "isValid", "<false>")],
     !.sent = r.sent, !.mocked = r.mocked,
     !.consulted = r.consulted, !.request = r.request]

\* what a call did, r being what #callWithModel returned for the model gate;
\* gate is the model object as the pipeline leaves it: #callWithModel and
\* #prepareSendRequest read its isValid, its validateResult and its
\* toDataObject() and assign nothing to it
Dispatched(r, gate) ==
  [NoEffect EXCEPT !.throws = r.throws, !.pending = r.pending,
     !.value = r.value, !.gate = gate, !.sent = r.sent, !.mocked = r.mocked,
     !.consulted = r.consulted, !.request = r.request]

\* #callWithData once modelFactory.create(data, this) has run with outcome c
callWithCreated(c, service, endpoint, mockResult, isMock, tokenProvider) ==
  IF c.throws # "none"
  THEN [NoEffect EXCEPT !.throws = c.throws, !.log = c.log]
  ELSE [Dispatched(callWithModel(Instance(c), service, endpoint, mockResult,
                                 isMock, tokenProvider),
                   Instance(c))
          EXCEPT !.constructed = TRUE, !.log = c.log, !.custom = c.custom]

\* #callWithData(data, service, endpoint, mockResult)
callWithData(data, service, endpoint, mockResult, isMock, tokenProvider, rules) ==
  IF ~getModel(service, endpoint.modelName).hasCreate
  THEN [NoEffect EXCEPT !.value = Error(<<"Invalid data">>)]
  ELSE callWithCreated(create(getModel(service, endpoint.modelName), data.own,
                              TRUE, rules),
                       service, endpoint, mockResult, isMock, tokenProvider)

\* modelOrData._schema != undefined && typeof modelOrData._schema === "object"
IsModel(modelOrData) ==
  /\ Get(modelOrData.own, "_schema") \notin {UNDEF, NULL}
  /\ TypeOf(Get(modelOrData.own, "_schema")) = "object"

\* for (const [key, value] of this.headers): the service after the global
\* headers have been filled into the headers of the endpoint
MergeGlobal(service, endpointName, globalHeaders) ==
  [service EXCEPT !.endpoints[endpointName].headers =
     FillAbsent(@, globalHeaders)]

\* a call that builds the model of the resolved endpoint from the fields of
\* the model it is given, and so validates them against that endpoint's schema
callEndpoint_Revalidating(modelOrData, service, endpoint, mockResult, isMock, tokenProvider, rules) ==
  callWithData([modelOrData EXCEPT !.own = toDataObject(@)], service, endpoint,
               mockResult, isMock, tokenProvider, rules)

\* call from the merge of the global headers on: the model or the data is
\* dispatched to the endpoint of the service
callEndpoint(modelOrData, service, endpoint, mockResult, isMock, tokenProvider, rules) ==
  IF IsModel(modelOrData)
  THEN Dispatched(callWithModel(modelOrData, service, endpoint, mockResult,
                                isMock, tokenProvider),
                  modelOrData)
  ELSE callWithData(modelOrData, service, endpoint, mockResult, isMock,
                    tokenProvider, rules)

\* call once #getDataFromFullName has returned d
callResolved(d, endpointName, modelOrData, mockResult, globalHeaders, isMock, tokenProvider, rules) ==
  IF d.throws # "none"
  THEN [NoEffect EXCEPT !.throws = d.throws, !.sid = d.sid,
          !.service = d.service]
  ELSE IF d.Failed
  THEN [NoEffect EXCEPT !.value = d.Response, !.sid = d.sid,
          !.service = d.service]
  ELSE [callEndpoint(modelOrData,
                     MergeGlobal(d.service, endpointName, globalHeaders),
                     MergeGlobal(d.service, endpointName,
                                 globalHeaders).endpoints[endpointName],
                     mockResult, isMock, tokenProvider, rules)
          EXCEPT !.sid = d.sid,
                 !.service = MergeGlobal(d.service, endpointName,
                                         globalHeaders),
                 !.headersUsed =
                   MergeGlobal(d.service, endpointName,
                               globalHeaders).endpoints[endpointName].headers]

\* call(fullName, modelOrData, mockResult): the result, and the service after
\* the headers have been merged into the endpoint
call(fullName, modelOrData, mockResult, registry, objects, globalHeaders, isMock, tokenProvider, rules) ==
  callResolved(getDataFromFullName(registry, objects, fullName),
               EndpointNameOf(fullName), modelOrData, mockResult,
               globalHeaders, isMock, tokenProvider, rules)

\* the value that stands for a returned TurtlRequestModel
ModelValue ==
  [success |-> FALSE, message |-> <<>>, data |-> "",
   cls |-> "TurtlRequestModel"]

\* createRequest once modelData.create(data, this) has run with outcome c
requestCreated(c) ==
  IF c.throws # "none"
  THEN [NoEffect EXCEPT !.throws = c.throws, !.log = c.log]
  ELSE [NoEffect EXCEPT !.value = ModelValue, !.gate = Instance(c),
          !.constructed = TRUE, !.log = c.log, !.custom = c.custom]

\* createRequest once the endpoint has been resolved, modelFactory being
\* service.getModel(endpoint.modelName)
createFromFactory(modelFactory, data, rules) ==
  IF ~modelFactory.hasCreate
  THEN [NoEffect EXCEPT !.throws = "Error"]
  ELSE requestCreated(create(modelFactory, data, TRUE, rules))

\* createRequest once #getDataFromFullName has returned d
createResolved(d, endpointName, data, rules) ==
  IF d.throws # "none"
  THEN [NoEffect EXCEPT !.throws = d.throws, !.sid = d.sid,
          !.service = d.service]
  ELSE IF d.Failed
  THEN [NoEffect EXCEPT !.value = d.Response, !.sid = d.sid,
          !.service = d.service]
  ELSE [createFromFactory(
          getModel(d.service, d.service.endpoints[endpointName].modelName),
          data, rules)
          EXCEPT !.sid = d.sid, !.service = d.service]

\* createRequest(fullName, data)
createRequest(fullName, data, registry, objects, rules) ==
  createResolved(getDataFromFullName(registry, objects, fullName),
                 EndpointNameOf(fullName), data, rules)

(***************************************************************************)
(* The inputs of the operations.                                           *)
(***************************************************************************)
ServiceIds == {"svc1"}

HeaderKeys == {"X"}

\* the schema of the login model of the usage script, and one whose rule is
\* not a built-in rule
LoginSchema == <<Field("email", <<RuleEntry("required"), RuleEntry("email")>>)>>

CustomRuleSchema == <<Field("email", <<RuleEntry("custom")>>)>>

ServiceModels ==
  {createFactory(LoginSchema, NULL), createFactory(CustomRuleSchema, NULL),
   NotAFactory}

ModelNames == {"login", "empty"}

EndpointNames == {"login"}

EndpointConfigs ==
  {[DefaultConfig EXCEPT !.modelName = "login",
      !.mockResponseSuccess = "function", !.mockResponseFailure = "function"],
   [DefaultConfig EXCEPT !.modelName = "login",
      !.headers = [k \in {"X"} |-> "e"]],
   DefaultConfig,
   [DefaultConfig EXCEPT !.modelName = "missing"]}

FullNames ==
  {<<"account", "login">>, <<"account", "nope">>, <<"ghost", "nope">>}

DataObjects ==
  {Empty, [k \in {"email"} |-> "a@b.c"], [k \in {"email"} |-> "bad"]}

RuleNames == {"required", "custom", "size"}

RegisteredFunctions == {"fFail", "fNothing"}

\* a caller that builds no request model itself
NoInput ==
  [data |-> Empty, schema |-> <<>>, apiPresent |-> FALSE,
   customValidator |-> NULL]

(***************************************************************************)
(* The state after new TurtlAPI({host, mock}) and the construction of the  *)
(* service objects.                                                        *)
(***************************************************************************)
Init ==
  /\ validationRules = BuiltinRegistry
  /\ warnings = 0
  /\ registrations = 0
  /\ headers = Empty
  /\ mock \in BOOLEAN
  /\ getAuthToken = NULL
  /\ services = Empty
  /\ svc = [s \in ServiceIds |-> TurtlAPIService("account", "/account")]
  /\ configured = [s \in ServiceIds |-> Empty]
  /\ held = [data |-> Empty, model |-> NoModel]
  /\ inflight = <<>>
  /\ last = Blank
  /\ input = NoInput

(***************************************************************************)
(* Set-up operations.                                                      *)
(***************************************************************************)
\* api.registerValidationRule(name, fn)
RegisterRule(name, fn) ==
  \E r \in {registerValidationRule(validationRules, name, fn)} :
     /\ registrations < MaxRegister
     /\ validationRules' = r.rules
     /\ warnings' = warnings + r.warned
     /\ registrations' = registrations + 1
     /\ last' = [Blank EXCEPT !.op = "registerValidationRule", !.name = name,
                   !.fn = fn, !.warned = r.warned,
                   !.existed = name \in DOMAIN validationRules]
     /\ UNCHANGED <<input, headers, mock, getAuthToken, services, svc, configured,
                    held, inflight>>

\* api.addService(service)
AddService(sid) ==
  \E r \in {addService(services, svc, sid)} :
  /\ services' = r.registry
  /\ last' = [Blank EXCEPT !.op = "addService", !.throws = r.throws,
                !.name = IF sid = UNDEF THEN UNDEF ELSE svc[sid].name,
                !.fn = sid]
  /\ UNCHANGED <<input, validationRules, warnings, registrations, headers, mock,
                 getAuthToken, svc, configured, held, inflight>>

\* api.addHeader(name, value)
AddHeader(key, value) ==
  /\ headers' = MapSet(headers, key, value)
  /\ last' = [Blank EXCEPT !.op = "addHeader", !.name = key]
  /\ UNCHANGED <<input, validationRules, warnings, registrations, mock, getAuthToken,
                 services, svc, configured, held, inflight>>

\* service.addModel(name, model)
AddModel(sid, name, model) ==
  \E r \in {addModel(svc[sid], name, model)} :
     /\ svc' = [svc EXCEPT ![sid] = r.service]
     /\ last' = [Blank EXCEPT !.op = "addModel", !.name = name, !.fn = sid,
                   !.factory = model, !.throws = r.throws]
     /\ UNCHANGED <<input, validationRules, warnings, registrations, headers, mock,
                    getAuthToken, services, configured, held, inflight>>

\* service.addEndpoint(name, config)
AddEndpoint(sid, name, config) ==
  \E r \in {addEndpoint(svc[sid], name, config)} :
     /\ svc' = [svc EXCEPT ![sid] = r.service]
     /\ configured' = IF r.throws = "none"
                      THEN [configured EXCEPT ![sid] =
                              MapSet(@, name, config.headers)]
                      ELSE configured
     /\ last' = [Blank EXCEPT !.op = "addEndpoint", !.name = name, !.fn = sid,
                   !.throws = r.throws]
     /\ UNCHANGED <<input, validationRules, warnings, registrations, headers, mock,
                    getAuthToken, services, held, inflight>>

\* service.addHeader(name, value)
ServiceAddHeader(sid, key, value) ==
  /\ svc' = [svc EXCEPT ![sid] = serviceAddHeader(@, key, value)]
  /\ last' = [Blank EXCEPT !.op = "service.addHeader", !.name = key]
  /\ UNCHANGED <<input, validationRules, warnings, registrations, headers, mock,
                 getAuthToken, services, configured, held, inflight>>

\* service.getEndpoint(name), called by the caller
GetEndpoint(sid, name) ==
  \E r \in {getEndpoint(svc[sid], name)} :
     /\ svc' = [svc EXCEPT ![sid] = r.service]
     /\ last' = [Blank EXCEPT !.op = "getEndpoint", !.name = name, !.fn = sid,
                   !.throws = r.throws, !.found = r.found,
                   !.headersUsed = IF r.found
                                   THEN r.service.endpoints[name].headers
                                   ELSE Empty]
     /\ UNCHANGED <<input, validationRules, warnings, registrations, headers, mock,
                    getAuthToken, services, configured, held, inflight>>

(***************************************************************************)
(* Calls.                                                                  *)
(***************************************************************************)
\* what the caller passes as mockResult; UNDEF stands for an argument left
\* out
MockResultArgs == {UNDEF, "<true>", "<false>"}

\* a mockResult that defaults to true
MockResultOf_DefaultTrue(mockArg) ==
  Truthy(IF mockArg = UNDEF THEN "<true>" ELSE mockArg)

\* mockResult = false in the parameter list of call, and if (mockResult)
MockResultOf(mockArg) == Truthy(IF mockArg = UNDEF THEN "<false>" ELSE mockArg)

\* the arguments the caller can pass to call: plain data, or the model held
CallArguments ==
  {RawData(d) : d \in DataObjects}
    \cup (IF held.model.present THEN {held.model} ELSE {})

\* the service objects after an operation that resolved a service
AfterResolution(r) ==
  IF r.sid = "" THEN svc ELSE [svc EXCEPT ![r.sid] = r.service]

\* await applied to what a mock function returned or to a thenable mock: the
\* call is suspended until the promise is settled
AwaitsMock(endpoint, mockResult) ==
  (IF mockResult THEN endpoint.mockResponseSuccess
   ELSE endpoint.mockResponseFailure) \in {"function", "thenable"}

\* the configured mock of the branch mockResult chooses
ChosenMock(endpoint, mockResult) ==
  IF mockResult THEN endpoint.mockResponseSuccess
  ELSE endpoint.mockResponseFailure

\* a call suspended at an await: what it waits for (the transport, or the
\* promise of a mock), for a mock the envelope the promise holds, and whether
\* the model the call will hand to #createMockResponse is a request model
\* (has toDataObject)
Suspended(fullName, awaits, value, ticket, instance) ==
  [value |-> value, instance |-> instance, fullName |-> fullName,
   ticket |-> ticket, awaits |-> awaits]

\* the identity of the promise (and of the XMLHttpRequest object) a new call
\* creates: the least number that no suspended call carries
FreeTicket(suspended) ==
  CHOOSE t \in 0..Len(suspended) :
    /\ \A i \in 1..Len(suspended) : suspended[i].ticket # t
    /\ \A u \in 0..(t - 1) : \E i \in 1..Len(suspended) : suspended[i].ticket = u

\* api.call(fullName, modelOrData, mockResult), up to the point where it
\* returns, raises, or is suspended: at the request handed to the transport,
\* or at the await of a mock that is a function or a thenable, before
\* #createMockResponse has run. concurrent tells whether the caller starts
\* calls while others are suspended, which bounds the calls in flight.
CallStep(fullName, modelOrData, mockArg, concurrent) ==
  \E r \in {call(fullName, modelOrData, MockResultOf(mockArg), services, svc,
                headers, mock, getAuthToken, validationRules)} :
  \E suspends \in {/\ r.mocked = 1
                   /\ AwaitsMock(r.service.endpoints[EndpointNameOf(fullName)],
                                 MockResultOf(mockArg))} :
     /\ (r.sent = 1 \/ suspends) =>
          Len(inflight) < (IF concurrent THEN MaxConcurrent ELSE MaxInflight)
     /\ svc' = AfterResolution(r)
     /\ inflight' =
          IF r.sent = 1
          THEN Append(inflight, Suspended(fullName, "transport", Undefined,
                                          FreeTicket(inflight), TRUE))
          ELSE IF suspends
          THEN Append(inflight,
                      Suspended(fullName, "mock",
                                ResolveMock(
                                  ChosenMock(
                                    r.service.endpoints[EndpointNameOf(fullName)],
                                    MockResultOf(mockArg)),
                                  MockResultOf(mockArg)),
                                FreeTicket(inflight), r.gate.instance))
          ELSE inflight
     /\ last' = [Blank EXCEPT !.op = "call", !.fullName = fullName,
                   !.data = modelOrData.own,
                   !.argIsInstance = modelOrData.instance,
                   !.mockArg = mockArg,
                   !.mockResult = MockResultOf(mockArg),
                   !.consulted = r.consulted,
                   !.throws = IF suspends THEN "none" ELSE r.throws,
                   !.pending = r.pending \/ suspends,
                   !.value = IF suspends THEN Undefined ELSE r.value,
                   !.gate = r.gate,
                   !.constructed = r.constructed, !.log = r.log,
                   !.custom = r.custom, !.sent = r.sent,
                   !.mocked = IF suspends THEN 0 ELSE r.mocked,
                   !.headersUsed = r.headersUsed, !.apiPresent = TRUE,
                   !.request = r.request,
                   !.ticket = IF r.sent = 1 \/ suspends
                              THEN FreeTicket(inflight) ELSE 0]
     /\ held' = IF modelOrData = held.model /\ r.gate.present /\ ~r.constructed
                THEN [held EXCEPT !.model = r.gate]
                ELSE held
     /\ UNCHANGED <<input, validationRules, warnings, registrations, headers, mock,
                    getAuthToken, services, configured>>

\* api.call(fullName, modelOrData, mockResult) by a caller that awaits each
\* call before it starts the next
Call(fullName, modelOrData, mockArg) ==
  CallStep(fullName, modelOrData, mockArg, FALSE)

\* api.createRequest(fullName, data); the caller keeps the model returned in
\* place of the one held, or drops it
CreateRequest(fullName, data, keep) ==
  \E r \in {createRequest(fullName, data, services, svc, validationRules)} :
     /\ svc' = AfterResolution(r)
     /\ held' = IF r.constructed /\ keep THEN [data |-> data, model |-> r.gate]
                ELSE held
     /\ last' = [Blank EXCEPT !.op = "createRequest", !.fullName = fullName,
                   !.data = data, !.throws = r.throws, !.value = r.value,
                   !.gate = r.gate, !.constructed = r.constructed,
                   !.log = r.log, !.custom = r.custom, !.apiPresent = TRUE]
     /\ UNCHANGED <<input, validationRules, warnings, registrations, headers, mock,
                    getAuthToken, services, configured, inflight>>

(***************************************************************************)
(* The transport: the XMLHttpRequest events.                               *)
(***************************************************************************)
\* a default substituted for a missing key only, not for null
Nullish_UndefinedOnly(v) == v = UNDEF

\* json.key ?? default
Nullish(v) == v \in {UNDEF, NULL}

\* TurtlResponse.fromJson(json), json an object with string message and data
fromJson(json) ==
  TurtlResponse(
    IF Nullish(Get(json, "success")) THEN FALSE ELSE json["success"] = "<true>",
    IF Nullish(Get(json, "message")) \/ Get(json, "message") = ""
      THEN <<>> ELSE <<json["message"]>>,
    IF Nullish(Get(json, "data")) THEN "{}" ELSE json["data"])

\* the response texts of the model: one that is not JSON, the JSON text null,
\* a JSON text of a primitive (5, "x", true), and JSON objects; json holds the
\* properties fromJson can read off the parsed value, none for a primitive
ResponseTexts ==
  {[parses |-> FALSE, isNull |-> FALSE, isObject |-> FALSE, json |-> Empty],
   [parses |-> TRUE, isNull |-> TRUE, isObject |-> FALSE, json |-> Empty],
   [parses |-> TRUE, isNull |-> FALSE, isObject |-> FALSE, json |-> Empty],
   [parses |-> TRUE, isNull |-> FALSE, isObject |-> TRUE, json |-> Empty],
   [parses |-> TRUE, isNull |-> FALSE, isObject |-> TRUE,
    json |-> [k \in {"success", "message", "data"} |->
                CASE k = "success" -> "<true>"
                  [] k = "message" -> "Login successful"
                  [] k = "data" -> "{user}"]]}

\* the sequence without its i-th element
RemoveAt(seq, i) ==
  [j \in 1..(Len(seq) - 1) |-> IF j < i THEN seq[j] ELSE seq[j + 1]]

\* a transport event that settles the request and resumes no call
Resolved_Lost(i, value, event, text) ==
  /\ inflight' = RemoveAt(inflight, i)
  /\ last' = [Blank EXCEPT !.op = "lost", !.fullName = inflight[i].fullName,
                !.ticket = inflight[i].ticket, !.fn = event, !.text = text]
  /\ UNCHANGED <<input, validationRules, warnings, registrations, headers, mock,
                 getAuthToken, services, svc, configured, held>>

\* the pending call resumes with the value the promise was resolved with by
\* the handler of the transport event
Resolved(i, value, event, text) ==
  /\ inflight' = RemoveAt(inflight, i)
  /\ last' = [Blank EXCEPT !.op = "response",
                !.fullName = inflight[i].fullName,
                !.ticket = inflight[i].ticket,
                !.value = value, !.fn = event, !.text = text]
  /\ UNCHANGED <<input, validationRules, warnings, registrations, headers, mock,
                 getAuthToken, services, svc, configured, held>>

\* an onload handler that reports a text that is not JSON as a network error
OnloadValue_NetworkError(text) ==
  IF text.parses /\ ~text.isNull THEN fromJson(text.json)
  ELSE Error(<<"Network error">>)

\* the value xhr.onload resolves with: JSON.parse throws for a text that is
\* not JSON and fromJson throws a TypeError for the JSON value null; the catch
\* block turns both into the "Invalid response" envelope. Every other parsed
\* value, an object or a primitive, goes through fromJson, which reads its
\* success, message and data
OnloadValue(text) ==
  IF text.parses /\ ~text.isNull THEN fromJson(text.json)
  ELSE Error(<<"Invalid response">>)

\* xhr.onload
TransportLoad(i, text) ==
  /\ inflight[i].awaits = "transport"
  /\ Resolved(i, OnloadValue(text), "onload", text)

\* xhr.onerror
TransportError(i) ==
  /\ inflight[i].awaits = "transport"
  /\ Resolved(i, Error(<<"Network error">>), "onerror", NoText)

\* xhr.ontimeout
TransportTimeout(i) ==
  /\ inflight[i].awaits = "transport"
  /\ Resolved(i, Error(<<"Request timed out.">>), "ontimeout", NoText)

\* a resumed call that takes the envelope of the call suspended last
Awaited_Shared(suspended, i) == suspended[Len(suspended)].value

\* the value of await in #prepareSendRequest: the envelope held by the promise
\* this call was suspended on
Awaited(suspended, i) == suspended[i].value

\* the promise of a mock is settled and the call suspended on it resumes:
\* #createMockResponse opens its console group, reads model.toDataObject(),
\* which raises a TypeError for a model that is no request model, and returns
\* the response
MockSettled(i) ==
  /\ inflight[i].awaits = "mock"
  /\ inflight' = RemoveAt(inflight, i)
  /\ last' = [Blank EXCEPT !.op = "response",
                !.fullName = inflight[i].fullName,
                !.ticket = inflight[i].ticket, !.fn = "mock", !.mocked = 1,
                !.throws = IF inflight[i].instance THEN "none"
                           ELSE "TypeError",
                !.value = IF inflight[i].instance THEN Awaited(inflight, i)
                          ELSE Undefined]
  /\ UNCHANGED <<input, validationRules, warnings, registrations, headers, mock,
                 getAuthToken, services, svc, configured, held>>

(***************************************************************************)
(* The specification of the dispatcher.                                    *)
(***************************************************************************)
Next ==
  \/ \E sid \in ServiceIds : AddService(sid)
  \/ \E key \in HeaderKeys : AddHeader(key, "g")
  \/ \E sid \in ServiceIds, name \in ModelNames, model \in ServiceModels :
       AddModel(sid, name, model)
  \/ \E sid \in ServiceIds, name \in EndpointNames, config \in EndpointConfigs :
       AddEndpoint(sid, name, config)
  \/ \E sid \in ServiceIds, key \in HeaderKeys : ServiceAddHeader(sid, key, "s")
  \/ \E sid \in ServiceIds, name \in EndpointNames \cup {"nope"} :
       GetEndpoint(sid, name)
  \/ \E fullName \in FullNames, modelOrData \in CallArguments,
        mockArg \in {"<true>", "<false>"} :
          Call(fullName, modelOrData, mockArg)
  \/ \E fullName \in FullNames, data \in DataObjects :
       CreateRequest(fullName, data, TRUE)
  \/ \E i \in 1..Len(inflight) : MockSettled(i)
  \/ \E i \in 1..Len(inflight), text \in ResponseTexts : TransportLoad(i, text)
  \/ \E i \in 1..Len(inflight) : TransportError(i)
  \/ \E i \in 1..Len(inflight) : TransportTimeout(i)

Spec == Init /\ [][Next]_vars

(***************************************************************************)
(* Request models built by the caller: factory.create(data, api), with the *)
(* rule registry of the dispatcher changing in between.                    *)
(***************************************************************************)
\* schema literals: the login model; one that declares an array-index name
\* after another name; one with two fields, a rule that is not built in and
\* an error message override; one whose field is not a rule list
IndexSchema ==
  <<Field("email", <<RuleEntry("required"), RuleEntry("email")>>),
    Field("1", <<RuleEntry("required")>>)>>

TwoFieldSchema ==
  <<Field("email", <<RuleEntryWith("required", <<"Email is needed">>),
                     RuleEntry("email")>>),
    Field("password", <<RuleEntry("required"), RuleEntry("custom")>>)>>

NotArraySchema == <<Field("email", <<RuleEntry("required")>>), BadField("password")>>

Schemas ==
  {<<>>, LoginSchema, IndexSchema, TwoFieldSchema, CustomRuleSchema,
   NotArraySchema}

\* the objects the caller passes as data
Object1(k1, v1) == [k \in {k1} |-> v1]

Object2(k1, v1, k2, v2) == [k \in {k1, k2} |-> IF k = k1 THEN v1 ELSE v2]

ModelData ==
  {Empty,
   Object1("email", "a@b.c"),
   Object1("email", "bad"),
   Object1("email", ""),
   Object2("email", "a@b.c", "password", "bad"),
   Object2("email", "a@b.c", "1", "bad"),
   Object2("email", "", "1", "bad"),
   Object2("email", "a@b.c", "extra", "bad"),
   Object2("email", "a@b.c", "getErrorMessage", "bad"),
   Object2("email", "", "getErrorMessage", "bad"),
   Object2("email", "bad", "getErrorMessage", ""),
   Object2("email", "", "isValid", "<true>"),
   Object2("email", "a@b.c", "_schema", "bad")}

\* factory.create(data, api) on a factory made by createFactory(schema,
\* customValidator); api is the dispatcher, or is left out
Create ==
  \E c \in {create(createFactory(input.schema, input.customValidator),
                   input.data, input.apiPresent, validationRules)} :
     /\ held' = IF c.throws = "none"
                THEN [data |-> input.data, model |-> Instance(c)]
                ELSE held
     /\ last' = [Blank EXCEPT !.op = "create", !.data = input.data,
                   !.factory = createFactory(input.schema,
                                             input.customValidator),
                   !.apiPresent = input.apiPresent, !.throws = c.throws,
                   !.value = IF c.throws = "none" THEN ModelValue
                             ELSE Undefined,
                   !.gate = IF c.throws = "none" THEN Instance(c) ELSE NoModel,
                   !.constructed = c.throws = "none", !.log = c.log,
                   !.custom = c.custom]
     /\ UNCHANGED <<input, validationRules, warnings, registrations, headers, mock,
                    getAuthToken, services, svc, configured, inflight>>

\* model.toDataObject() on the model the caller holds
ToDataObject ==
  /\ held.model.present
  /\ last' = [Blank EXCEPT !.op = "toDataObject",
                !.data = toDataObject(held.model.own)]
  /\ UNCHANGED <<input, validationRules, warnings, registrations, headers, mock,
                 getAuthToken, services, svc, configured, held, inflight>>

ModelInit ==
  /\ validationRules = BuiltinRegistry
  /\ warnings = 0
  /\ registrations = 0
  /\ headers = Empty
  /\ mock = FALSE
  /\ getAuthToken = NULL
  /\ services = Empty
  /\ svc = [s \in ServiceIds |-> TurtlAPIService("account", "/account")]
  /\ configured = [s \in ServiceIds |-> Empty]
  /\ held = [data |-> Empty, model |-> NoModel]
  /\ inflight = <<>>
  /\ last = Blank
  /\ input \in [schema : Schemas,
                customValidator : CustomValidators \cup {NULL},
                data : ModelData, apiPresent : BOOLEAN]

ModelNext ==
  \/ \E name \in RuleNames, fn \in RegisteredFunctions \cup {"fPlain"} :
       RegisterRule(name, fn)
  \/ Create
  \/ ToDataObject

ModelSpec == ModelInit /\ [][ModelNext]_vars

(***************************************************************************)
(* The specification of dispatch: the caller has built its service objects *)
(* (the set-up operations of Spec have run); it registers them and calls.  *)
(***************************************************************************)
\* the configurations of the login endpoint
DispatchConfigs ==
  {[DefaultConfig EXCEPT !.modelName = "login", !.requiresAuth = auth,
      !.mockResponseSuccess = kind, !.mockResponseFailure = kind] :
     auth \in BOOLEAN, kind \in MockKinds}

\* new TurtlAPIService("account", "/account") after addModel("login", model)
\* and addEndpoint("login", config)
AccountService(model, config) ==
  addEndpoint(addModel(TurtlAPIService("account", "/account"), "login",
                       model).service,
              "login", config).service

\* the service objects of the caller: the account service, a second service
\* of the same name whose login model has no create function, and a service
\* without a name
DispatchIds == {"svc1", "svc2", "svc3"}

ServiceObjects(config) ==
  [sid \in DispatchIds |->
     CASE sid = "svc1" -> AccountService(createFactory(LoginSchema, NULL),
                                         config)
       [] sid = "svc2" -> AccountService(NotAFactory,
                            [DefaultConfig EXCEPT !.modelName = "login"])
       [] sid = "svc3" -> TurtlAPIService("", "/none")]

\* plain data objects that carry an object-valued _schema field
SchemaCarriers ==
  {RawData([k \in {"_schema"} |-> "<object>"]),
   RawData([k \in {"_schema", "isValid"} |->
              IF k = "_schema" THEN "<object>" ELSE "<true>"])}

DispatchInit ==
  /\ validationRules = BuiltinRegistry
  /\ warnings = 0
  /\ registrations = 0
  /\ headers = Empty
  /\ mock \in BOOLEAN
  /\ getAuthToken \in TokenProviders
  /\ services = Empty
  /\ svc \in {ServiceObjects(config) : config \in DispatchConfigs}
  /\ configured = [s \in DispatchIds |-> Empty]
  /\ held = [data |-> Empty, model |-> NoModel]
  /\ inflight = <<>>
  /\ last = Blank
  /\ input = NoInput

DispatchNext ==
  \/ \E sid \in DispatchIds \cup {UNDEF} : AddService(sid)
  \/ \E fullName \in FullNames,
        modelOrData \in CallArguments \cup SchemaCarriers,
        mockArg \in MockResultArgs : Call(fullName, modelOrData, mockArg)
  \/ \E fullName \in FullNames, data \in DataObjects :
       CreateRequest(fullName, data, TRUE)
  \/ \E i \in 1..Len(inflight) : MockSettled(i)
  \/ \E i \in 1..Len(inflight), text \in ResponseTexts : TransportLoad(i, text)
  \/ \E i \in 1..Len(inflight) : TransportError(i)
  \/ \E i \in 1..Len(inflight) : TransportTimeout(i)

DispatchSpec == DispatchInit /\ [][DispatchNext]_vars

(***************************************************************************)
(* A session of a dispatcher in use: the account service is registered     *)
(* with a login endpoint (POST) and a find endpoint (GET); the caller      *)
(* creates request models, keeps one, calls with it or with plain data,    *)
(* and registers rules and headers in between.                             *)
(***************************************************************************)
\* the schema of the model of the find endpoint
FindSchema == <<Field("q", <<RuleEntry("required")>>)>>

\* the account service after addModel("login", ...), addModel("find", ...),
\* addEndpoint("login", ...) and addEndpoint("find", ...)
SessionService ==
  addEndpoint(
    addEndpoint(
      addModel(
        addModel(TurtlAPIService("account", "/account"), "login",
                 createFactory(LoginSchema, NULL)).service,
        "find", createFactory(FindSchema, NULL)).service,
      "login", [DefaultConfig EXCEPT !.modelName = "login"]).service,
    "find", [DefaultConfig EXCEPT !.modelName = "find", !.method = "get",
               !.path = "/find.php"]).service

SessionNames == {<<"account", "login">>, <<"account", "find">>}

SessionData ==
  {Object1("email", "a@b.c"), Object1("email", "bad"), Object1("q", "turtle")}

\* data that names the fields the constructor sets itself
ForgedKeys == {"isValid", "validateResult", "_schema", "_customValidator", "_api"}

ForgedData ==
  {Object2("email", "bad", "isValid", "<true>"),
   [k \in {"email"} \cup ForgedKeys |->
      CASE k = "email" -> "bad"
        [] k = "isValid" -> "<true>"
        [] k = "validateResult" -> "<object>"
        [] k = "_schema" -> "bad"
        [] k = "_customValidator" -> NULL
        [] k = "_api" -> NULL]}

SessionInit ==
  /\ validationRules = BuiltinRegistry
  /\ warnings = 0
  /\ registrations = 0
  /\ headers = Empty
  /\ mock \in BOOLEAN
  /\ getAuthToken = NULL
  /\ services = [n \in {"account"} |-> "svc1"]
  /\ svc = [s \in ServiceIds |-> SessionService]
  /\ configured = [s \in ServiceIds |-> [n \in {"login", "find"} |-> Empty]]
  /\ held = [data |-> Empty, model |-> NoModel]
  /\ inflight = <<>>
  /\ last = Blank
  /\ input = NoInput

SessionNext ==
  \/ \E name \in {"required"}, fn \in RegisteredFunctions :
       RegisterRule(name, fn)
  \/ \E key \in HeaderKeys : AddHeader(key, "g")
  \/ \E sid \in ServiceIds, key \in HeaderKeys : ServiceAddHeader(sid, key, "s")
  \/ \E fullName \in SessionNames, data \in SessionData, keep \in BOOLEAN :
       CreateRequest(fullName, data, keep)
  \/ ToDataObject
  \/ \E fullName \in SessionNames,
        modelOrData \in {RawData(d) : d \in SessionData \cup ForgedData}
                          \cup (IF held.model.present THEN {held.model}
                                ELSE {}),
        mockArg \in {"<true>", "<false>"} :
          Call(fullName, modelOrData, mockArg)
  \/ \E i \in 1..Len(inflight), text \in ResponseTexts : TransportLoad(i, text)
  \/ \E i \in 1..Len(inflight) : TransportError(i)
  \/ \E i \in 1..Len(inflight) : TransportTimeout(i)

SessionSpec == SessionInit /\ [][SessionNext]_vars

(***************************************************************************)
(* Concurrent calls: the caller issues calls without awaiting the ones     *)
(* before; each runs up to its first await and is resumed when the promise *)
(* it waits for is settled, in any order.                                  *)
(***************************************************************************)
ConcurrentInit ==
  /\ validationRules = BuiltinRegistry
  /\ warnings = 0
  /\ registrations = 0
  /\ headers = [k \in HeaderKeys |-> "g"]
  /\ mock \in BOOLEAN
  /\ getAuthToken \in {NULL, "returnsToken"}
  /\ services = [n \in {"account"} |-> "svc1"]
  /\ svc \in {[s \in ServiceIds |->
                 AccountService(createFactory(LoginSchema, NULL), config)] :
              config \in DispatchConfigs}
  /\ configured = [s \in ServiceIds |-> [n \in {"login"} |-> Empty]]
  /\ held = [data |-> Empty, model |-> NoModel]
  /\ inflight = <<>>
  /\ last = Blank
  /\ input = NoInput

ConcurrentNext ==
  \/ \E fullName \in FullNames, modelOrData \in {RawData(d) : d \in DataObjects},
        mockArg \in {"<true>", "<false>"} :
          CallStep(fullName, modelOrData, mockArg, TRUE)
  \/ \E i \in 1..Len(inflight) : MockSettled(i)
  \/ \E i \in 1..Len(inflight), text \in ResponseTexts : TransportLoad(i, text)
  \/ \E i \in 1..Len(inflight) : TransportError(i)
  \/ \E i \in 1..Len(inflight) : TransportTimeout(i)

ConcurrentSpec == ConcurrentInit /\ [][ConcurrentNext]_vars

\* the transport of the call with ticket t signals completion, a network
\* error or a timeout
Settle(t) ==
  \E i \in 1..Len(inflight) :
    /\ inflight[i].ticket = t
    /\ \/ \E text \in ResponseTexts : TransportLoad(i, text)
       \/ TransportError(i)
       \/ TransportTimeout(i)

\* the calls whose transport is assumed to signal eventually: all but the
\* one with the highest ticket, whose transport may stay silent for ever
FairTickets == 0..(MaxConcurrent - 2)

LiveSpec ==
  /\ ConcurrentInit
  /\ [][ConcurrentNext]_vars
  /\ \A t \in FairTickets : WF_vars(Settle(t))

(***************************************************************************)
(* The specification of the response envelope: TurtlResponse.fromJson on   *)
(* the JSON objects a server can answer with.                              *)
(***************************************************************************)
\* the values a parsed JSON object holds under success, message and data;
\* UNDEF stands for a key the object does not have
JsonSuccess == {UNDEF, NULL, "<true>", "<false>"}

JsonMessage == {UNDEF, NULL, "", "Login successful"}

JsonData == {UNDEF, NULL, "{}", "{user}"}

\* the object with the keys success, message and data, those that hold UNDEF
\* left out
JsonObject(success, message, data) ==
  [k \in {n \in {"success", "message", "data"} :
            (CASE n = "success" -> success
               [] n = "message" -> message
               [] n = "data" -> data) # UNDEF} |->
     CASE k = "success" -> success
       [] k = "message" -> message
       [] k = "data" -> data]

JsonObjects ==
  {JsonObject(success, message, data) :
     success \in JsonSuccess, message \in JsonMessage, data \in JsonData}

\* TurtlResponse.fromJson(json) on the object the caller holds
FromJson ==
  /\ last' = [Blank EXCEPT !.op = "fromJson", !.data = input.json,
                !.value = fromJson(input.json)]
  /\ UNCHANGED <<input, validationRules, warnings, registrations, headers,
                 mock, getAuthToken, services, svc, configured, held,
                 inflight>>

JsonInit ==
  /\ validationRules = BuiltinRegistry
  /\ warnings = 0
  /\ registrations = 0
  /\ headers = Empty
  /\ mock = FALSE
  /\ getAuthToken = NULL
  /\ services = Empty
  /\ svc = [s \in ServiceIds |-> TurtlAPIService("account", "/account")]
  /\ configured = [s \in ServiceIds |-> Empty]
  /\ held = [data |-> Empty, model |-> NoModel]
  /\ inflight = <<>>
  /\ last = Blank
  /\ input \in [json : JsonObjects]

JsonNext == FromJson

JsonSpec == JsonInit /\ [][JsonNext]_vars

(***************************************************************************)
(* Properties of the dispatcher, checked under Spec.                       *)
(***************************************************************************)
\* value is a failing response envelope
IsFailure(value) == value.cls = "TurtlResponse" /\ ~value.success

\* the message was built with the name interpolated into it
Mentions(message, name) == \E i \in 1..Len(message) : message[i] = name

\* the model that reached the validity gate is not valid
GateInvalid == last.gate.present /\ ~Truthy(Get(last.gate.own, "isValid"))

\* C1: a call whose model (built from the data, or passed by the caller) is
\* not valid when it reaches the validity gate returns that model's
\* validateResult; no request is handed to the transport and no mock is
\* resolved, in mock mode or not, whatever mockResult is.  A call that is
\* passed an invalid model never sends or mocks, even when the name does not
\* resolve.
C1_ValidityGate ==
  /\ (last.op = "call" /\ GateInvalid) =>
       /\ last.throws = "none"
       /\ ~last.pending
       /\ last.value = last.gate.validateResult
       /\ last.sent = 0
       /\ last.mocked = 0
       /\ last.request = NoRequest
  /\ (last.op = "call" /\ last.argIsInstance
        /\ ~Truthy(Get(last.data, "isValid"))) =>
       last.sent = 0 /\ last.mocked = 0

\* a call in mock mode with mockResult true was passed an invalid model built
\* beforehand and returned its validateResult
C1_Witness ==
  /\ last.op = "call"
  /\ GateInvalid
  /\ last.argIsInstance
  /\ mock
  /\ last.mockResult
  /\ IsFailure(last.value)

\* C2: a call whose service name is not registered returns, without raising, a
\* failing envelope whose message names that service; it builds no model,
\* sends no request and resolves no mock.
C2_UnknownService ==
  (last.op = "call" /\ ~HasService(services, ServiceNameOf(last.fullName))) =>
    /\ last.throws = "none"
    /\ ~last.pending
    /\ IsFailure(last.value)
    /\ Mentions(last.value.message, ServiceNameOf(last.fullName))
    /\ ~last.constructed
    /\ ~last.gate.present
    /\ last.sent = 0
    /\ last.mocked = 0

\* a call to ghost.nope on a dispatcher that has another service registered
C2_Witness ==
  /\ last.op = "call"
  /\ ServiceNameOf(last.fullName) = "ghost"
  /\ HasService(services, "account")
  /\ IsFailure(last.value)

\* the endpoint named by the last operation is not in the registered service
EndpointMissing ==
  /\ HasService(services, ServiceNameOf(last.fullName))
  /\ EndpointNameOf(last.fullName)
       \notin DOMAIN svc[services[ServiceNameOf(last.fullName)]].endpoints

\* C3: call and createRequest with a registered service and an endpoint name
\* the service does not contain return, without raising, a failing envelope
\* that names the endpoint, also when the service has headers of its own.
C3_UnknownEndpoint ==
  (last.op \in {"call", "createRequest"} /\ EndpointMissing) =>
    /\ last.throws = "none"
    /\ IsFailure(last.value)
    /\ Mentions(last.value.message, EndpointNameOf(last.fullName))

\* the value the claimed precedence gives a header of the endpoint resolved
\* by the last call: the endpoint's configured value, else the current value
\* of the service, else the global value
PrecedenceValue(key) ==
  LET sid == services[ServiceNameOf(last.fullName)]
      own == configured[sid][EndpointNameOf(last.fullName)]
  IN IF key \in DOMAIN own THEN own[key]
     ELSE IF key \in DOMAIN svc[sid].headers THEN svc[sid].headers[key]
     ELSE Get(headers, key)

\* C4: after any sequence of addHeader, service.addHeader, getEndpoint and
\* call, the headers of a request handed to the transport give each key the
\* endpoint's configured value, else the service's current value, else the
\* global value.
C4_HeaderPrecedence ==
  (last.op = "call" /\ last.sent = 1) =>
    \A key \in HeaderKeys :
      Get(last.request.headers, key) = PrecedenceValue(key)

(***************************************************************************)
(* Properties of request models and of the rule registry, checked under    *)
(* ModelSpec.                                                              *)
(***************************************************************************)
\* the first rule validation comes to is not in the registry
FirstRuleUnregistered(schema) ==
  /\ schema # <<>>
  /\ ForInOrder(schema)[1].isArray
  /\ ForInOrder(schema)[1].rules # <<>>
  /\ ForInOrder(schema)[1].rules[1].rule \notin DOMAIN validationRules

\* C5: building a request model whose schema names a rule that is not in the
\* registry of the dispatcher does not raise; the model has isValid false and
\* its validateResult is a failing envelope that reports the rule.
C5_UnregisteredRule ==
  (last.op = "create" /\ last.apiPresent
     /\ FirstRuleUnregistered(last.factory.schema)) =>
    /\ last.throws = "none"
    /\ last.gate.present
    /\ Get(last.gate.own, "isValid") = "<false>"
    /\ IsFailure(last.gate.validateResult)
    /\ Mentions(last.gate.validateResult.message,
                ForInOrder(last.factory.schema)[1].rules[1].rule)

\* C6: registering a rule under a name that is already registered replaces the
\* function, so that a lookup returns the new one, and logs exactly one
\* warning; registering under a fresh name logs none.
C6_OverwriteWarns ==
  last.op = "registerValidationRule" =>
    /\ getValidationRule(validationRules, last.name)
         = [throws |-> "none", fn |-> last.fn]
    /\ last.warned = IF last.existed THEN 1 ELSE 0

\* where the schema literal declares a field, and a rule within a field
DeclaredAt(schema, key) == CHOOSE i \in 1..Len(schema) : schema[i].key = key

RuleAt(schema, key, rule) ==
  CHOOSE j \in 1..Len(schema[DeclaredAt(schema, key)].rules) :
    schema[DeclaredAt(schema, key)].rules[j].rule = rule

\* the names of the fields of a schema
FieldNames(schema) == {schema[i].key : i \in 1..Len(schema)}

\* the order of declaration of the fields, as the set of the pairs <<k1, k2>>
\* with k1 before k2
DeclaredBefore(schema) ==
  {p \in FieldNames(schema) \X FieldNames(schema) :
     DeclaredAt(schema, p[1]) < DeclaredAt(schema, p[2])}

\* the order of property enumeration of the fields: array-index names come
\* first, in ascending numeric order, the other names in declaration order
EnumeratedBefore(schema) ==
  {p \in FieldNames(schema) \X FieldNames(schema) :
     IF p[1] \in ArrayIndexKeys /\ p[2] \in ArrayIndexKeys
     THEN IndexOf(p[1]) < IndexOf(p[2])
     ELSE IF p[1] \in ArrayIndexKeys THEN TRUE
     ELSE IF p[2] \in ArrayIndexKeys THEN FALSE
     ELSE p \in DeclaredBefore(schema)}

\* the <<field, rule>> pairs of a schema
Applications(schema) ==
  UNION {{<<schema[i].key, schema[i].rules[j].rule>> :
            j \in 1..Len(schema[i].rules)} : i \in 1..Len(schema)}

\* the rules were invoked one after the other in the order that before gives
\* the fields and the rule lists give the rules, none skipped
Sequential(schema, log, before) ==
  LET PairBefore(p, q) ==
        IF p[1] = q[1]
        THEN RuleAt(schema, p[1], p[2]) < RuleAt(schema, q[1], q[2])
        ELSE <<p[1], q[1]>> \in before
  IN /\ \A i, j \in 1..Len(log) : i < j => PairBefore(log[i], log[j])
     /\ \A p \in Applications(schema), i \in 1..Len(log) :
          PairBefore(p, log[i]) => \E j \in 1..Len(log) : log[j] = p

\* what the i-th rule invoked by the last construction returned
InvocationValue(i) ==
  LET schema == last.factory.schema
      key == last.log[i][1]
      entry == schema[DeclaredAt(schema, key)].rules[
                 RuleAt(schema, key, last.log[i][2])]
  IN ApplyRule(validationRules[entry.rule], Get(last.gate.own, key),
               last.gate.own, entry.options).value

\* validation stopped at the first failing rule and adopted its envelope
StopsAtFirstFailure ==
  /\ \A i \in 1..(Len(last.log) - 1) : ~IsFailure(InvocationValue(i))
  /\ (last.log # <<>> /\ IsFailure(InvocationValue(Len(last.log)))) =>
       /\ last.gate.validateResult = InvocationValue(Len(last.log))
       /\ Get(last.gate.own, "isValid") = "<false>"
  /\ (/\ \A i \in 1..Len(last.log) : ~IsFailure(InvocationValue(i))
      /\ \A i \in 1..Len(last.factory.schema) : last.factory.schema[i].isArray
      /\ last.apiPresent) =>
       Len(last.log) = Cardinality(Applications(last.factory.schema))

\* C7 as stated: validation evaluates the fields in the order the schema
\* declares them and, within a field, the rules in list order; it stops at the
\* first rule that returns a failing envelope, adopts that envelope and
\* invokes no later rule.
C7_DeclarationOrder ==
  (last.op = "create" /\ last.constructed) =>
    /\ Sequential(last.factory.schema, last.log,
                  DeclaredBefore(last.factory.schema))
    /\ StopsAtFirstFailure

\* C7 amended: the fields are evaluated in the order for-in enumerates the
\* schema (array-index names first in ascending order, then the other names
\* in declaration order), the rules of a field in list order; validation
\* stops at the first rule that returns a failing envelope, adopts that
\* envelope and invokes no later rule.
C7_EnumerationOrder ==
  (last.op = "create" /\ last.constructed) =>
    /\ Sequential(last.factory.schema, last.log,
                  EnumeratedBefore(last.factory.schema))
    /\ StopsAtFirstFailure

\* the field "1", declared last, was validated first and passed; validation
\* then failed on the first rule of email and never invoked the email rule
C7_Witness ==
  /\ last.op = "create"
  /\ last.constructed
  /\ last.factory.schema = IndexSchema
  /\ last.log = << <<"1", "required">>, <<"email", "required">> >>
  /\ IsFailure(last.gate.validateResult)

\* what the rule of the j-th entry of the i-th declared field returns on the
\* instance of the last construction
RuleValue(i, j) ==
  LET f == last.factory.schema[i]
  IN ApplyRule(validationRules[f.rules[j].rule], Get(last.gate.own, f.key),
               last.gate.own, f.rules[j].options).value

\* schema validation of the last construction succeeded: every field lists
\* its rules in an array, every rule is a registered function reached through
\* the dispatcher, and none returns a failing envelope
SchemaSucceeded ==
  \A i \in 1..Len(last.factory.schema) :
    /\ last.factory.schema[i].isArray
    /\ \A j \in 1..Len(last.factory.schema[i].rules) :
         /\ last.apiPresent
         /\ last.factory.schema[i].rules[j].rule \in DOMAIN validationRules
         /\ ~IsFailure(RuleValue(i, j))

\* the failing envelopes schema validation can return for the last
\* construction
SchemaFailures ==
  LET schema == last.factory.schema
  IN UNION {
       (IF schema[i].isArray THEN {}
        ELSE {Error(<<"Schema for field '", schema[i].key,
                      "' must be an array.">>)})
       \cup {Error(<<"Validation rule '", schema[i].rules[j].rule,
                     "' not registered.">>) :
              j \in {n \in 1..Len(schema[i].rules) : ~last.apiPresent}}
       \cup {RuleValue(i, j) :
              j \in {n \in 1..Len(schema[i].rules) :
                       /\ last.apiPresent
                       /\ schema[i].rules[n].rule \in DOMAIN validationRules
                       /\ IsFailure(RuleValue(i, n))}}
       : i \in 1..Len(schema)}

\* the custom validator of the last construction, if any, failed
CustomFailed ==
  /\ last.factory.customValidator # NULL
  /\ ApplyCustom(last.factory.customValidator).cls \notin
       {"undefined", "primitive"}
  /\ ~ApplyCustom(last.factory.customValidator).success

\* C8: the constructed model has isValid = true exactly when schema
\* validation succeeded and the custom validator (if any) did not fail;
\* validateResult is then a Success envelope, and otherwise the first failing
\* envelope: the schema failure if there is one, else the custom validator's.
C8_ValidityAndResult ==
  (last.op = "create" /\ last.constructed) =>
    /\ Get(last.gate.own, "isValid") =
         (IF SchemaSucceeded /\ ~CustomFailed THEN "<true>" ELSE "<false>")
    /\ (SchemaSucceeded /\ ~CustomFailed) =>
         /\ last.gate.validateResult.cls = "TurtlResponse"
         /\ last.gate.validateResult.success
    /\ ~SchemaSucceeded => last.gate.validateResult \in SchemaFailures
    /\ (SchemaSucceeded /\ CustomFailed) =>
         last.gate.validateResult = ApplyCustom(last.factory.customValidator)

\* a model whose data pass a schema with rules but whose custom validator
\* fails: it is not valid and carries the custom validator's envelope
C8_Witness ==
  /\ last.op = "create"
  /\ last.constructed
  /\ last.factory.schema = LoginSchema
  /\ SchemaSucceeded
  /\ last.factory.customValidator = "cvFail"
  /\ Get(last.gate.own, "isValid") = "<false>"
  /\ last.gate.validateResult = Error(<<"Custom validation failed">>)

\* C9 as stated: the custom validator is invoked only when schema validation
\* succeeded; when schema validation fails it is not invoked at all.
C9_OnlyOnSuccess ==
  (last.op = "create" /\ last.constructed /\ ~SchemaSucceeded) => ~last.custom

\* C9 amended: the custom validator supplied at factory creation is invoked
\* on every construction in which schema validation returns, whether it
\* succeeded or failed, and on no other; a failing schema validation still
\* decides the result.
C9_InvokedRegardless ==
  last.op = "create" =>
    /\ last.custom = (last.constructed /\ last.factory.customValidator # NULL)
    /\ (last.constructed /\ ~SchemaSucceeded) =>
         last.gate.validateResult \in SchemaFailures

\* a construction whose schema validation failed and whose custom validator
\* was invoked all the same
C9_Witness ==
  /\ last.op = "create"
  /\ last.constructed
  /\ ~SchemaSucceeded
  /\ last.factory.customValidator = "cvFail"
  /\ last.custom

\* C10 as stated: toDataObject never contains _schema, _customValidator,
\* _api, validateResult or isValid, maps every other key of the caller data
\* D to D's value and contains no key that is not in D.
C10_AllOtherKeys ==
  last.op = "toDataObject" =>
    last.data =
      [k \in DOMAIN held.data \
               {"_schema", "_customValidator", "_api", "validateResult",
                "isValid"} |-> held.data[k]]

\* C10 amended: toDataObject never contains _schema, _customValidator, _api,
\* validateResult, isValid or getErrorMessage, maps every other key of the
\* caller data D to D's value and contains no key that is not in D.
C10_AllButSixKeys ==
  last.op = "toDataObject" =>
    last.data =
      [k \in DOMAIN held.data \
               {"_schema", "_customValidator", "_api", "validateResult",
                "isValid", "getErrorMessage"} |-> held.data[k]]

\* the caller data had a field named getErrorMessage, which toDataObject left
\* out while it kept the field email
C10_Witness ==
  /\ last.op = "toDataObject"
  /\ "getErrorMessage" \in DOMAIN held.data
  /\ "getErrorMessage" \notin DOMAIN last.data
  /\ "email" \in DOMAIN last.data
  /\ last.data["email"] = held.data["email"]

(***************************************************************************)
(* Properties of the response envelope, checked under JsonSpec.            *)
(***************************************************************************)
\* the key holds a value in the JSON object (a key that holds null counts as
\* missing)
Present(json, key) == key \in DOMAIN json /\ json[key] # NULL

\* C11: fromJson on a JSON object with any subset of the keys success,
\* message and data returns an envelope that keeps the value of each key that
\* is present and sets each missing key to its default (false, "", {}); the
\* result always has the three keys, and fromJson({}) is
\* {success: false, message: "", data: {}}.
C11_FromJsonDefaults ==
  last.op = "fromJson" =>
    /\ last.value.cls = "TurtlResponse"
    /\ DOMAIN last.value = {"cls", "success", "message", "data"}
    /\ last.value.success =
         (IF Present(last.data, "success") THEN last.data["success"] = "<true>"
          ELSE FALSE)
    /\ last.value.message =
         (IF Present(last.data, "message") /\ last.data["message"] # ""
          THEN <<last.data["message"]>> ELSE <<>>)
    /\ last.value.data =
         (IF Present(last.data, "data") THEN last.data["data"] ELSE "{}")
    /\ last.data = Empty => last.value = TurtlResponse(FALSE, <<>>, "{}")

\* fromJson was applied to an object that has a message only: the message is
\* kept, success and data are at their defaults
C11_Witness ==
  /\ last.op = "fromJson"
  /\ DOMAIN last.data = {"message"}
  /\ last.value = TurtlResponse(FALSE, <<"Login successful">>, "{}")

(***************************************************************************)
(* Properties of dispatch, checked under DispatchSpec.                     *)
(***************************************************************************)
\* the endpoint the last call resolved
CalledEndpoint ==
  svc[services[ServiceNameOf(last.fullName)]].endpoints[
    EndpointNameOf(last.fullName)]

\* the last call passed a valid request model on to #prepareSendRequest
PassedValidModel ==
  /\ last.op = "call"
  /\ last.throws = "none"
  /\ last.gate.present
  /\ last.gate.instance
  /\ Get(last.gate.own, "isValid") = "<true>"

\* the mock configured on the endpoint for a branch
ConfiguredMock(endpoint, success) ==
  IF success THEN endpoint.mockResponseSuccess
  ELSE endpoint.mockResponseFailure

\* the record of the promise the last call is suspended on
AwaitedPromise ==
  inflight[CHOOSE i \in 1..Len(inflight) : inflight[i].ticket = last.ticket]

\* the last call is suspended at the await of a mock: nothing is returned
\* and #createMockResponse has not run yet
SuspendedOnMock ==
  /\ last.op = "call"
  /\ last.pending
  /\ last.sent = 0
  /\ last.mocked = 0
  /\ \E i \in 1..Len(inflight) :
       inflight[i].ticket = last.ticket /\ inflight[i].awaits = "mock"

\* the step resumes a call suspended on a mock, which returns the envelope
\* its promise held
ReturnsAwaited ==
  (last'.op = "response" /\ last'.fn = "mock") =>
    \E i \in 1..Len(inflight) :
      /\ inflight[i].awaits = "mock"
      /\ inflight' = RemoveAt(inflight, i)
      /\ last'.ticket = inflight[i].ticket
      /\ last'.mocked = 1
      /\ inflight[i].instance =>
           (last'.throws = "none" /\ last'.value = inflight[i].value)

\* C12: in mock mode no call issues a transport request; a call with valid
\* input and mockResult = true returns the success mock of the endpoint, and
\* a call with mockResult omitted or false returns the failure-branch mock:
\* at once for a mock that is a plain value or absent, and when the call is
\* resumed for a mock that is a function or a thenable.
C12_MockMode ==
  /\ [](mock =>
         /\ \A i \in 1..Len(inflight) : inflight[i].awaits = "mock"
         /\ last.sent = 0
         /\ PassedValidModel =>
              \E branch \in {last.mockArg = "<true>"} :
              \E conf \in {ConfiguredMock(CalledEndpoint, branch)} :
                IF conf \in {"function", "thenable"}
                THEN /\ SuspendedOnMock
                     /\ AwaitedPromise.value = MockEnvelope(conf, branch)
                     /\ AwaitedPromise.value.success = branch
                ELSE /\ ~last.pending
                     /\ last.mocked = 1
                     /\ last.value.success = branch
                     /\ conf # NULL => last.value = MockEnvelope(conf, branch))
  /\ [][mock => ReturnsAwaited]_vars

\* in mock mode a call with valid data and no mockResult was suspended on
\* the failure mock that the endpoint configures as a function, and has
\* returned its envelope
C12_Witness ==
  /\ mock
  /\ last.op = "response"
  /\ last.fn = "mock"
  /\ last.throws = "none"
  /\ last.mocked = 1
  /\ inflight = <<>>
  /\ last.value = Error(<<"Mock login failure (", "function", ")">>)

\* the envelope the mock of the kind stands for on a branch
MockValue(kind, success) ==
  CASE kind = "function" -> MockEnvelope("function", success)
    [] kind = "thenable" -> MockEnvelope("thenable", success)
    [] kind = "literal" -> MockEnvelope("literal", success)
    [] kind = NULL -> IF success
                      THEN Success(<<"Mocked response">>, "{}")
                      ELSE Error(<<"Mocked failure response">>)

\* C13: in mock mode the value returned for the chosen branch is the awaited
\* result of calling the configured mock when it is a function, the awaited
\* value when it is a thenable, the value itself when it is any other present
\* value, and a default Success or Error envelope when the mock is absent.
C13_MockResolution ==
  /\ [](/\ (last.op = "call" /\ last.throws = "none" /\ last.mocked = 1) =>
              /\ ConfiguredMock(CalledEndpoint, last.mockResult) \in
                   {"literal", NULL}
              /\ last.value =
                   MockValue(ConfiguredMock(CalledEndpoint, last.mockResult),
                             last.mockResult)
        /\ SuspendedOnMock =>
              /\ ConfiguredMock(CalledEndpoint, last.mockResult) \in
                   {"function", "thenable"}
              /\ AwaitedPromise.value =
                   MockValue(ConfiguredMock(CalledEndpoint, last.mockResult),
                             last.mockResult))
  /\ [][ReturnsAwaited /\ (last'.op = "call" => last'.mocked = 0 \/ mock)]_vars

\* a mocked call on the success branch of an endpoint whose mock is a
\* thenable was suspended on it and returned the value the thenable
\* resolves to
C13_Witness ==
  /\ last.op = "response"
  /\ last.fn = "mock"
  /\ last.throws = "none"
  /\ ConfiguredMock(CalledEndpoint, TRUE) = "thenable"
  /\ last.value = Success(<<"Mock login (", "thenable", ")">>, "{user}")

\* C14: every call that returns resolves to a response envelope (a value
\* carrying success, message and data), for every dispatcher configuration,
\* every mock configuration and every call argument, including a raw data
\* object that itself carries an object-valued _schema field.
C14_AlwaysEnvelope ==
  /\ (last.op = "call" /\ last.throws = "none" /\ ~last.pending) =>
       last.value.cls = "TurtlResponse"
  /\ (last.op = "response" /\ last.throws = "none") =>
       last.value.cls = "TurtlResponse"

\* C15: outside mock mode a call to an endpoint with requiresAuth returns a
\* failing "authentication required" envelope without sending the request
\* whenever the token provider is absent or yields no token (null or empty);
\* when a token is yielded the request is sent with it as a bearer
\* Authorization header; endpoints without requiresAuth never consult the
\* token provider.
C15_AuthRequired ==
  (~mock /\ PassedValidModel) =>
    /\ (CalledEndpoint.requiresAuth /\ getAuthToken # "returnsToken") =>
         /\ last.value = Error(<<"Authentication required.">>)
         /\ last.sent = 0
         /\ ~last.pending
    /\ (CalledEndpoint.requiresAuth /\ getAuthToken = "returnsToken") =>
         /\ last.pending
         /\ last.sent = 1
         /\ "Authorization" \in DOMAIN last.request.headers
         /\ last.request.headers["Authorization"] = "Bearer token"
    /\ ~CalledEndpoint.requiresAuth =>
         /\ ~last.consulted
         /\ last.sent = 1
         /\ "Authorization" \notin DOMAIN last.request.headers

\* a call to an endpoint that requires auth, with a token provider that
\* yields the empty string, was refused without a transport request
C15_Witness ==
  /\ ~mock
  /\ PassedValidModel
  /\ CalledEndpoint.requiresAuth
  /\ getAuthToken = "returnsEmpty"
  /\ last.consulted
  /\ last.value = Error(<<"Authentication required.">>)
  /\ inflight = <<>>

\* a step of the transport outside mock mode: a response resumes exactly one
\* pending call, removed from the requests in flight by the one transport event
\* that settles it, and never raises; a network error, a timeout and a response
\* text that is not parseable JSON each give a failing envelope with a fixed
\* message of its own; only a call that was sent adds a request in flight
TransportStep ==
  /\ last'.op = "response" =>
       /\ Len(inflight) = Len(inflight') + 1
       /\ \E i \in 1..Len(inflight) :
            /\ inflight' = RemoveAt(inflight, i)
            /\ last'.fullName = inflight[i].fullName
       /\ last'.throws = "none"
       /\ last'.value.cls = "TurtlResponse"
       /\ last'.fn \in {"onload", "onerror", "ontimeout"}
       /\ last'.fn = "onerror" => last'.value = Error(<<"Network error">>)
       /\ last'.fn = "ontimeout" =>
            last'.value = Error(<<"Request timed out.">>)
       /\ (last'.fn = "onload" /\ ~last'.text.parses) =>
            last'.value = Error(<<"Invalid response">>)
  /\ Len(inflight') < Len(inflight) => last'.op = "response"
  /\ Len(inflight') > Len(inflight) =>
       /\ Len(inflight') = Len(inflight) + 1
       /\ last'.op = "call"
       /\ last'.pending
       /\ last'.sent = 1

\* the step resumes a call with a response text that is parseable JSON
ParsedLoad == last'.op = "response" /\ last'.fn = "onload" /\ last'.text.parses

\* C16: outside mock mode every transport outcome becomes a returned envelope
\* and never a raised error: a network error, a response text that is not
\* parseable JSON and a timeout each give a failing envelope with a fixed
\* message of its own, and every response text that is parseable JSON, the
\* text null included, gives fromJson of the parsed value (for a value with
\* none of the three fields, the envelope of the three defaults); each pending
\* call is resumed exactly once.
C16_TransportOutcomes ==
  [][~mock =>
       /\ TransportStep
       /\ ParsedLoad => last'.value = fromJson(last'.text.json)]_vars

\* C16: outside mock mode every transport outcome becomes a returned envelope
\* and never a raised error: a network error, a timeout and an invalid
\* response each give a failing envelope with a fixed message of its own,
\* where a response text is invalid when it is not parseable JSON or is the
\* JSON text null; every other parseable response text, a primitive included,
\* gives fromJson of the parsed value; each pending call is resumed exactly
\* once.
C16_NullIsInvalid ==
  [][~mock =>
       /\ TransportStep
       /\ (ParsedLoad /\ ~last'.text.isNull) =>
            last'.value = fromJson(last'.text.json)
       /\ (ParsedLoad /\ last'.text.isNull) =>
            last'.value = Error(<<"Invalid response">>)]_vars

\* the three failure messages of the transport are pairwise distinct, and a
\* pending call was resumed by the response text null with the envelope of an
\* invalid response, which is not fromJson of a value without fields
C16_Witness ==
  /\ Error(<<"Network error">>) # Error(<<"Invalid response">>)
  /\ Error(<<"Network error">>) # Error(<<"Request timed out.">>)
  /\ Error(<<"Invalid response">>) # Error(<<"Request timed out.">>)
  /\ last.op = "response"
  /\ last.fn = "onload"
  /\ last.text.parses
  /\ last.text.isNull
  /\ last.throws = "none"
  /\ last.value = Error(<<"Invalid response">>)
  /\ last.value # fromJson(last.text.json)
  /\ inflight = <<>>
  /\ ~mock

(***************************************************************************)
(* Properties of the service objects, checked under Spec.                  *)
(***************************************************************************)
\* the last operation was a service operation of the given kind
ServiceOp(l, op) == l.op = op /\ l.fn \in ServiceIds

\* C17: addEndpoint with a modelName that is not a key of the Models of the
\* service raises and leaves the service unchanged, and a getEndpoint of the
\* same name that follows does not raise, in every state of the service, and
\* returns an endpoint only if one was stored under the name before.
C17_RejectedEndpoint ==
  [][/\ (ServiceOp(last', "addEndpoint") /\ last'.throws = "Error") =>
          svc' = svc
     /\ (/\ ServiceOp(last, "addEndpoint")
         /\ last.throws = "Error"
         /\ ServiceOp(last', "getEndpoint")
         /\ last'.fn = last.fn
         /\ last'.name = last.name) =>
          /\ last'.throws = "none"
          /\ last'.found => last.name \in DOMAIN svc[last.fn].endpoints]_vars

\* every service holds the model "empty" its constructor registered, a factory
\* whose instances are valid whatever the data
EmptyModelSeeded ==
  \A sid \in ServiceIds :
    /\ "empty" \in DOMAIN svc[sid].Models
    /\ svc[sid].Models["empty"] = createFactory(<<>>, NULL)
    /\ \A data \in DataObjects :
         \E c \in {create(svc[sid].Models["empty"], data, TRUE,
                          validationRules)} :
           /\ c.throws = "none"
           /\ c.own["isValid"] = "<true>"

\* C18: addModel raises exactly when the name is already a key of Models and
\* then leaves Models unchanged, the factory registered first staying in
\* place; every service is constructed with a model "empty" that accepts any
\* data as valid, so addModel("empty", ...) always raises.
C18_ModelAlreadyExists ==
  /\ []EmptyModelSeeded
  /\ [][ServiceOp(last', "addModel") =>
          /\ last'.throws = "Error" <=>
               last'.name \in DOMAIN svc[last'.fn].Models
          /\ last'.throws = "Error" => svc' = svc
          /\ last'.throws = "none" =>
               svc'[last'.fn].Models =
                 MapSet(svc[last'.fn].Models, last'.name, last'.factory)
          /\ last'.name = "empty" => last'.throws = "Error"]_vars

\* addModel was refused for the name "login", already taken by another
\* factory than the one offered, and that factory is still registered
C18_Witness ==
  /\ ServiceOp(last, "addModel")
  /\ last.name = "login"
  /\ last.throws = "Error"
  /\ last.factory = createFactory(CustomRuleSchema, NULL)
  /\ svc[last.fn].Models["login"] = createFactory(LoginSchema, NULL)

\* the service the full name of the last operation resolves to, if any
ServiceKnown == HasService(services, ServiceNameOf(last.fullName))

ResolvedService == svc[services[ServiceNameOf(last.fullName)]]

\* the endpoint of the full name is stored in the service resolved
EndpointKnown ==
  /\ ServiceKnown
  /\ EndpointNameOf(last.fullName) \in DOMAIN ResolvedService.endpoints

\* the model the endpoint resolved names has a create function
FactoryResolvable ==
  /\ EndpointKnown
  /\ getModel(ResolvedService, CalledEndpoint.modelName).hasCreate

\* C19: createRequest returns the failing envelope of the resolution when the
\* service or the endpoint is unknown, returns a freshly constructed and
\* already validated request model when the model factory of the endpoint is
\* resolvable, and raises when it is not; a call with raw data in that last
\* state returns the failing envelope "Invalid data" and does not raise.
C19_CreateRequest ==
  /\ (last.op = "createRequest" /\ ~EndpointKnown) =>
       /\ last.throws = "none"
       /\ IsFailure(last.value)
       /\ ~last.constructed
  /\ (last.op = "createRequest" /\ FactoryResolvable) =>
       /\ last.throws = "none"
       /\ last.constructed
       /\ last.gate.instance
       /\ Get(last.gate.own, "isValid") \in {"<true>", "<false>"}
  /\ (last.op = "createRequest" /\ EndpointKnown /\ ~FactoryResolvable) =>
       /\ last.throws = "Error"
       /\ ~last.constructed
  /\ (/\ last.op = "call"
      /\ ~last.argIsInstance
      /\ EndpointKnown
      /\ ~FactoryResolvable) =>
       /\ last.throws = "none"
       /\ last.value = Error(<<"Invalid data">>)

(***************************************************************************)
(* Properties of the service registry, checked under DispatchSpec.         *)
(***************************************************************************)
\* the argument of addService is missing or is a service without a name
Nameless(sid) == sid = UNDEF \/ ~Truthy(svc[sid].name)

\* C20: addService raises and leaves the registry unchanged when the service
\* is missing or has no name; otherwise it stores the service under its name,
\* replacing without notice the service stored under that name before; no
\* other operation changes the registry, and a later call resolves to the
\* service stored last under the name.
C20_AddService ==
  [][/\ (last'.op = "addService" /\ Nameless(last'.fn)) =>
          /\ last'.throws = "Error"
          /\ services' = services
     /\ (last'.op = "addService" /\ ~Nameless(last'.fn)) =>
          /\ last'.throws = "none"
          /\ services' = MapSet(services, svc[last'.fn].name, last'.fn)
     /\ last'.op # "addService" => services' = services
     /\ (/\ last'.op = "call"
         /\ last'.fullName = <<"account", "login">>
         /\ ~last'.argIsInstance
         /\ "_schema" \notin DOMAIN last'.data) =>
          /\ last'.throws = "none"
          /\ ~HasService(services, "account") =>
               /\ IsFailure(last'.value)
               /\ Mentions(last'.value.message, "account")
          /\ (HasService(services, "account") /\ services["account"] = "svc1")
               => last'.gate.present
          /\ (HasService(services, "account") /\ services["account"] = "svc2")
               => last'.value = Error(<<"Invalid data">>)]_vars

\* a request model was created while the first account service was
\* registered, the second account service then took its place, and a call
\* with plain data was resolved to the second one
C20_Witness ==
  /\ held.model.present
  /\ HasService(services, "account")
  /\ services["account"] = "svc2"
  /\ last.op = "call"
  /\ last.fullName = <<"account", "login">>
  /\ ~last.argIsInstance
  /\ last.value = Error(<<"Invalid data">>)

(***************************************************************************)
(* Properties of a session, checked under SessionSpec.                     *)
(***************************************************************************)
\* the request model the caller holds is replaced by the step: createRequest
\* returned a new one and the caller kept it
HeldReplaced == last'.op = "createRequest" /\ held'.data = last'.data

\* C21: isValid and validateResult of a request model are set at
\* construction and no operation of the library changes them afterwards:
\* call with the model, toDataObject, createRequest, registerValidationRule
\* and addHeader leave the model as it was, and call on a model applies no
\* rule to it.
C21_ValidityFrozen ==
  [][/\ (held.model.present /\ (held' # held => ~HeldReplaced)) =>
          /\ Get(held'.model.own, "isValid") = Get(held.model.own, "isValid")
          /\ held'.model.validateResult = held.model.validateResult
          /\ held'.model = held.model
     /\ (last'.op = "call" /\ last'.argIsInstance) =>
          /\ last'.log = <<>>
          /\ ~last'.constructed
          /\ last'.gate.present => last'.gate = held.model]_vars

\* the caller holds a valid login model built before the rule "required" was
\* replaced by one that always fails, and a call with the model was handed
\* on although a model built now from the same data is not valid
C21_Witness ==
  /\ held.model.present
  /\ Get(held.model.own, "isValid") = "<true>"
  /\ last.op = "call"
  /\ last.argIsInstance
  /\ last.gate = held.model
  /\ last.sent + last.mocked = 1
  /\ validationRules["required"] = "fFail"
  /\ create(createFactory(LoginSchema, NULL), held.data, TRUE,
            validationRules).own["isValid"] = "<false>"

(***************************************************************************)
(* Properties of concurrent calls, checked under ConcurrentSpec.           *)
(***************************************************************************)
\* the service objects as they were set up, before any call merged headers
\* into the endpoints
AsConfigured ==
  [sid \in DOMAIN svc |->
     [svc[sid] EXCEPT !.endpoints =
        [n \in DOMAIN svc[sid].endpoints |->
           [svc[sid].endpoints[n] EXCEPT !.headers = configured[sid][n]]]]]

\* what the call of the step returns when it runs alone from the state the
\* dispatcher was set up in
Alone(l) ==
  call(l.fullName, RawData(l.data), l.mockResult, services, AsConfigured,
       headers, mock, getAuthToken, validationRules)

\* C22: among calls issued concurrently, interleaved at the transport round
\* trip or at the await of an asynchronous mock, each call returns the
\* envelope it returns when run alone from the same dispatcher state, and no
\* call changes the rule registry, the service registry, the global headers
\* or the headers of a service.
C22_ConcurrentCalls ==
  [][/\ last'.op = "call" =>
          \E alone \in {Alone(last')} :
            /\ last'.sent = alone.sent
            /\ ~last'.pending =>
                 /\ last'.throws = alone.throws
                 /\ last'.mocked = alone.mocked
                 /\ last'.value = alone.value
            /\ (last'.pending /\ last'.sent = 0) =>
                 /\ alone.throws = "none"
                 /\ alone.mocked = 1
                 /\ Len(inflight') = Len(inflight) + 1
                 /\ inflight'[Len(inflight')].value = alone.value
                 /\ \A i \in 1..Len(inflight) : inflight'[i] = inflight[i]
            /\ (last'.pending /\ last'.sent = 1) =>
                 /\ alone.pending
                 /\ alone.throws = "none"
                 /\ last'.request = alone.request
                 /\ \A i \in 1..Len(inflight) : inflight'[i] = inflight[i]
     /\ last'.op = "response" =>
          \E i \in 1..Len(inflight) :
            /\ inflight' = RemoveAt(inflight, i)
            /\ last'.fullName = inflight[i].fullName
            /\ inflight[i].awaits = "mock" =>
                 /\ last'.throws = "none"
                 /\ last'.mocked = 1
                 /\ last'.value = inflight[i].value
            /\ inflight[i].awaits = "transport" =>
                 last'.value \in
                   {OnloadValue(text) : text \in ResponseTexts}
                     \cup {Error(<<"Network error">>),
                           Error(<<"Request timed out.">>)}
     /\ validationRules' = validationRules
     /\ services' = services
     /\ headers' = headers
     /\ \A sid \in DOMAIN svc :
          /\ svc'[sid].headers = svc[sid].headers
          /\ svc'[sid].Models = svc[sid].Models
          /\ DOMAIN svc'[sid].endpoints = DOMAIN svc[sid].endpoints]_vars

\* two calls were suspended on mocks with different envelopes at the same
\* time, after the global header had been merged into the endpoint, and one
\* of them has been resumed with its own envelope while the other waits
C22_Witness ==
  /\ mock
  /\ last.op = "response"
  /\ last.fn = "mock"
  /\ Len(inflight) = 1
  /\ inflight[1].awaits = "mock"
  /\ IsFailure(inflight[1].value)
  /\ last.value.success
  /\ svc # AsConfigured

(***************************************************************************)
(* More properties of the service objects, checked under Spec.             *)
(***************************************************************************)
\* C23: addEndpoint under a name that is already a key of the endpoints of
\* the service raises an error and leaves the endpoint registered first in
\* place.
C23_DuplicateEndpoint ==
  [][(/\ ServiceOp(last', "addEndpoint")
      /\ last'.name \in DOMAIN svc[last'.fn].endpoints) =>
        /\ last'.throws = "Error"
        /\ svc'[last'.fn].endpoints[last'.name] =
             svc[last'.fn].endpoints[last'.name]]_vars

\* every endpoint stored in a service names a model of the service, and the
\* model "empty" is registered
EndpointsHaveModels ==
  \A sid \in ServiceIds :
    /\ "empty" \in DOMAIN svc[sid].Models
    /\ \A n \in DOMAIN svc[sid].endpoints :
         svc[sid].endpoints[n].modelName \in DOMAIN svc[sid].Models

\* C24: after any sequence of addModel and addEndpoint calls on a service,
\* successful or failing, every endpoint stored has a modelName that is a key
\* of Models, "empty" is a key of Models, and no operation removes a model.
C24_EndpointModels ==
  /\ []EndpointsHaveModels
  /\ [][\A sid \in ServiceIds :
          DOMAIN svc[sid].Models \subseteq DOMAIN svc'[sid].Models]_vars

\* an addEndpoint with a modelName that is not registered has just failed on
\* a service that holds a second model and an endpoint that names it
C24_Witness ==
  /\ ServiceOp(last, "addEndpoint")
  /\ last.throws = "Error"
  /\ DOMAIN svc[last.fn].Models = {"empty", "login"}
  /\ "login" \in DOMAIN svc[last.fn].endpoints
  /\ svc[last.fn].endpoints["login"].modelName = "login"

(***************************************************************************)
(* More properties of a session, checked under SessionSpec.                *)
(***************************************************************************)
\* the call of the last step handed a request to the transport
RequestSent == last.op = "call" /\ last.pending /\ last.sent = 1

\* C25: outside mock mode the request goes to host + service.basePath +
\* endpoint.path with the method of the endpoint; for the method GET the
\* toDataObject() fields of the model are encoded as the query of the URL and
\* no body is sent; for every other method the URL carries no query and the
\* body is the serialized toDataObject() mapping.
C25_RequestShape ==
  RequestSent =>
    /\ ~mock
    /\ last.request.url =
         Host \o ResolvedService.basePath \o CalledEndpoint.path
    /\ last.request.method = CalledEndpoint.method
    /\ ToUpperCase(CalledEndpoint.method) = "GET" =>
         /\ last.request.query = toDataObject(last.gate.own)
         /\ ~last.request.hasBody
         /\ last.request.body = Empty
    /\ ToUpperCase(CalledEndpoint.method) # "GET" =>
         /\ last.request.query = Empty
         /\ last.request.hasBody
         /\ last.request.body = toDataObject(last.gate.own)

\* a call to the find endpoint, whose method is written "get", was sent with
\* the field of the model as its query and without a body
C25_Witness ==
  /\ RequestSent
  /\ last.fullName = <<"account", "find">>
  /\ last.request.method = "get"
  /\ last.request.url = "http://jsmodule.local/account/find.php"
  /\ last.request.query = Object1("q", "turtle")
  /\ ~last.request.hasBody

(***************************************************************************)
(* Termination of calls, checked under LiveSpec.                           *)
(***************************************************************************)
\* the call with ticket t waits for its transport
AwaitsTransport(t) ==
  \E i \in 1..Len(inflight) :
    inflight[i].ticket = t /\ inflight[i].awaits = "transport"

\* the call with ticket t has just returned an envelope
Returned(t) ==
  /\ last.op = "response"
  /\ last.ticket = t
  /\ last.throws = "none"
  /\ last.value.cls = "TurtlResponse"

\* C26: a call outside mock mode that is handed to the transport eventually
\* returns an envelope, provided its transport eventually signals completion,
\* a network error or a timeout; a timeout gives an envelope of its own; a
\* call whose transport never signals stays suspended, leaves the suspended
\* calls beside it as they are, and does not keep them from returning.
C26_EventuallyReturns ==
  /\ \A t \in FairTickets : AwaitsTransport(t) ~> Returned(t)
  /\ [][\A t \in 0..(MaxConcurrent - 1) :
          /\ (AwaitsTransport(t) /\ ~AwaitsTransport(t)') =>
               /\ Returned(t)'
               /\ last'.fn \in {"onload", "onerror", "ontimeout"}
               /\ last'.fn = "ontimeout" <=>
                    last'.value = Error(<<"Request timed out.">>)
          /\ (AwaitsTransport(t) /\ ~(last'.op = "response" /\ last'.ticket = t))
               => \E i \in 1..Len(inflight), j \in 1..Len(inflight') :
                    /\ inflight[i].ticket = t
                    /\ inflight'[j] = inflight[i]]_vars

\* a call returned the envelope of a timeout while the call issued beside it,
\* whose transport has not signalled, is still suspended
C26_Witness ==
  /\ ~mock
  /\ Returned(0)
  /\ last.fn = "ontimeout"
  /\ last.value = Error(<<"Request timed out.">>)
  /\ AwaitsTransport(MaxConcurrent - 1)

(***************************************************************************)
(* Properties of the header merge, checked under Spec.                     *)
(***************************************************************************)
\* the step is a lookup: getEndpoint by the caller, or call or createRequest,
\* which look the endpoint up themselves
Lookup(l) == l.op \in {"getEndpoint", "call", "createRequest"}

\* the step repeats the lookup of the step before it
Repeated ==
  \/ /\ last.op = "getEndpoint" /\ last'.op = "getEndpoint"
     /\ last'.fn = last.fn /\ last'.name = last.name
  \/ /\ last.op = "call" /\ last'.op = "call"
     /\ last'.fullName = last.fullName

\* C27: the header merge only fills and it persists: no getEndpoint and no
\* call changes or removes a header key that the header map of an endpoint
\* already has, so the keys one lookup filled in are there at every later
\* lookup, and repeating a getEndpoint or a call with the global and the
\* service headers unchanged leaves the header map of the endpoint as it is.
C27_FillOnlyPersistent ==
  [][/\ Lookup(last') =>
          \A sid \in ServiceIds :
            \A n \in DOMAIN svc[sid].endpoints :
              /\ n \in DOMAIN svc'[sid].endpoints
              /\ \A k \in DOMAIN svc[sid].endpoints[n].headers :
                   /\ k \in DOMAIN svc'[sid].endpoints[n].headers
                   /\ svc'[sid].endpoints[n].headers[k] =
                        svc[sid].endpoints[n].headers[k]
     /\ Repeated => svc' = svc]_vars

\* a call filled the global header into an endpoint configured without
\* headers; the service was given a header of the same name afterwards, and
\* a later getEndpoint still returns the value the call filled in
C27_Witness ==
  /\ last.op = "getEndpoint"
  /\ last.found
  /\ configured[last.fn][last.name] = Empty
  /\ "X" \in DOMAIN last.headersUsed
  /\ last.headersUsed["X"] = "g"
  /\ "X" \in DOMAIN svc[last.fn].headers
  /\ svc[last.fn].headers["X"] = "s"

\* the data without the fields the constructor sets itself
Unforged(data) == [k \in DOMAIN data \ ForgedKeys |-> data[k]]

\* the model the factory of the endpoint called builds from the data with the
\* rules of the dispatcher
Reference(data) ==
  create(getModel(ResolvedService, CalledEndpoint.modelName), data, TRUE,
         validationRules)

\* C28: data cannot forge validity: whatever the data, the keys isValid,
\* validateResult, _schema, _customValidator and _api included, isValid and
\* validateResult of the model constructed from it are the outcome of
\* validating the data against the schema and the custom validator of the
\* factory with the rules of the dispatcher, and a call with data that says
\* isValid: true and fails a rule is stopped at the validity gate.
C28_NoForgedValidity ==
  /\ \A sid \in ServiceIds : \A n \in DOMAIN svc[sid].Models :
       \A data \in ForgedData \cup {d.own : d \in SchemaCarriers} :
         \E c \in {create(svc[sid].Models[n], data, TRUE, validationRules)} :
         \E ref \in {create(svc[sid].Models[n], Unforged(data), TRUE,
                            validationRules)} :
           /\ c.throws = ref.throws
           /\ c.throws = "none" =>
                /\ c.own["isValid"] = ref.own["isValid"]
                /\ c.validateResult = ref.validateResult
  /\ (last.op = "call" /\ ~last.argIsInstance /\ last.constructed) =>
    \E ref \in {Reference(Unforged(last.data))} :
      /\ ref.throws = "none"
      /\ Get(last.gate.own, "isValid") = ref.own["isValid"]
      /\ last.gate.validateResult = ref.validateResult
      /\ ref.own["isValid"] = "<false>" =>
           /\ last.value = ref.validateResult
           /\ IsFailure(last.value)
           /\ last.sent = 0
           /\ last.mocked = 0
           /\ ~last.pending

\* a call with data that fails the email rule and names all the fields the
\* constructor sets, isValid: true among them, was stopped at the gate
C28_Witness ==
  /\ last.op = "call"
  /\ ~last.argIsInstance
  /\ last.constructed
  /\ ForgedKeys \subseteq DOMAIN last.data
  /\ last.data["isValid"] = "<true>"
  /\ Get(last.gate.own, "isValid") = "<false>"
  /\ last.value = Error(<<"Must be a valid email.">>)
  /\ last.sent = 0
  /\ last.mocked = 0

\* what the custom validator of the last construction returns
CustomValue == ApplyCustom(last.factory.customValidator)

\* some field of the schema of the last construction does not list its rules
\* in an array
SomeFieldNotArray ==
  \E i \in 1..Len(last.factory.schema) : ~last.factory.schema[i].isArray

\* a rule fails validation only by returning an envelope with success false:
\* such a return ends validation and becomes the result, and after any other
\* return (nothing, a plain object) validation goes on to the next rule
RuleFailsOnEnvelopeOnly ==
  \A i \in 1..Len(last.log) :
    IF IsFailure(InvocationValue(i))
    THEN /\ i = Len(last.log)
         /\ last.gate.validateResult = InvocationValue(i)
         /\ Get(last.gate.own, "isValid") = "<false>"
    ELSE i < Len(last.log) \/ SchemaSucceeded \/ SomeFieldNotArray

\* C29 as stated: a rule fails only by returning a failing envelope, while a
\* custom validator fails the model whenever it returns any value whose
\* success is falsy.
C29_AnyFalsySuccess ==
  (last.op = "create" /\ last.constructed) =>
    /\ RuleFailsOnEnvelopeOnly
    /\ (last.custom /\ CustomValue.cls # "undefined" /\ ~CustomValue.success)
         => Get(last.gate.own, "isValid") = "<false>"

\* C29 amended: a rule fails validation only by returning an envelope with
\* success false, and validation continues after a rule that returns nothing
\* or a plain object; a custom validator fails a model that passed its schema
\* exactly when it returns a truthy value (an envelope, a plain object, a
\* truthy primitive) whose success is falsy, and that value becomes the
\* result; a falsy return (nothing, false) leaves the model valid.
C29_FailureCriteria ==
  (last.op = "create" /\ last.constructed) =>
    /\ RuleFailsOnEnvelopeOnly
    /\ SchemaSucceeded =>
         LET truthy == \/ CustomValue.cls \in {"TurtlResponse", "Object"}
                       \/ /\ CustomValue.cls = "primitive"
                          /\ CustomValue.message[1] \notin {"<false>", "", NULL}
             fails == last.custom /\ truthy /\ ~CustomValue.success
         IN /\ Get(last.gate.own, "isValid") =
                 (IF fails THEN "<false>" ELSE "<true>")
            /\ fails => last.gate.validateResult = CustomValue

\* the rule registered as required returned a plain object with success
\* false, validation went on to the email rule and passed, and the custom
\* validator failed the model by returning the same kind of plain object
C29_Witness ==
  /\ last.op = "create"
  /\ last.constructed
  /\ last.factory.schema = LoginSchema
  /\ last.factory.customValidator = "cvPlain"
  /\ "required" \in DOMAIN validationRules
  /\ validationRules["required"] = "fPlain"
  /\ last.log = << <<"email", "required">>, <<"email", "email">> >>
  /\ InvocationValue(1) = PlainFailure
  /\ Get(last.gate.own, "isValid") = "<false>"
  /\ last.gate.validateResult = PlainFailure

\* a custom validator that returned false on a model that passed its schema:
\* the value's success is falsy and the model is valid
C29_FalsyReturn ==
  /\ last.op = "create"
  /\ last.constructed
  /\ SchemaSucceeded
  /\ last.factory.customValidator = "cvFalse"
  /\ last.custom
  /\ Get(last.gate.own, "isValid") = "<true>"

\* the argument of the last call carries an object-valued _schema
CalledWithModel ==
  /\ last.op = "call"
  /\ last.throws = "none"
  /\ ServiceKnown
  /\ EndpointKnown
  /\ IsModel([own |-> last.data])

\* what constructing the model of the endpoint of the last call from the
\* fields of its argument gives
OwnModelOf(data) ==
  create(getModel(ResolvedService, CalledEndpoint.modelName),
         toDataObject(data), TRUE, validationRules)

\* C30: a call argument that carries an object-valued _schema is used as it
\* is and is never checked against the model of the resolved endpoint: no
\* model is constructed and no rule is invoked, the argument's own isValid
\* alone decides, and a valid argument is dispatched with its toDataObject()
\* fields as the payload, whatever the schema of the endpoint.
C30_ForeignModel ==
  CalledWithModel =>
    /\ ~last.constructed
    /\ last.log = <<>>
    /\ ~last.custom
    /\ last.gate.own = last.data
    /\ IF Truthy(Get(last.data, "isValid"))
       THEN /\ last.mocked = 1 \/ last.sent = 1
            /\ last.mocked = 1 <=> mock
            /\ last.sent = 1 =>
                 (IF ToUpperCase(CalledEndpoint.method) = "GET"
                  THEN last.request.query ELSE last.request.body)
                   = toDataObject(last.data)
       ELSE last.mocked = 0 /\ last.sent = 0

\* the login model, valid for the login schema under the built-in rules, was
\* passed to the find endpoint, whose schema requires the field q that it
\* lacks: it was sent, with its email as the query
C30_Witness ==
  /\ CalledWithModel
  /\ validationRules = BuiltinRegistry
  /\ last.fullName = <<"account", "find">>
  /\ last.argIsInstance
  /\ Get(last.data, "isValid") = "<true>"
  /\ toDataObject(last.data) = Object1("email", "a@b.c")
  /\ OwnModelOf(last.data).throws = "none"
  /\ Get(Instance(OwnModelOf(last.data)).own, "isValid") = "<false>"
  /\ last.sent = 1
  /\ last.pending
  /\ last.request.query = Object1("email", "a@b.c")
====
